---------------------------- MODULE Spec2Model ----------------------------
(***************************************************************************)
(* Model of the path-finding visualiser (App component, five-engine        *)
(* variant): the graph store (cities / connections / links), the five      *)
(* traversal engines with their animation traces, the trace player and     *)
(* the mutation handlers.                                                  *)
(*                                                                         *)
(* Conventions.  A node id is a string; the empty string is the unset      *)
(* selection and also stands for JavaScript null where the code only       *)
(* tests truthiness.  An edge key `${s}-${t}` is modelled by the pair      *)
(* <<s, t>> (ids of the model contain no "-", so the key is injective).    *)
(* A null edge is the empty tuple.  dfsPath = null is the record NoResult  *)
(* (found = FALSE).                                                        *)
(***************************************************************************)
EXTENDS Integers, Sequences, FiniteSets, TLC

VARIABLES
    cities,               \* string[]      node ids, in node order
    connections,          \* Connections[] edge records (data side)
    links,                \* GraphLink[]   edge records (graph side)
    hoveredEdge,          \* {source, target} | null, edge under the pointer
    sourceNodeId,         \* string | null, first node of an edge being drawn
    startCity,            \* string        "" when unset
    endCity,              \* string        "" when unset
    algorithm,            \* "DFS" | "BFS" | "Dijkstra" | "Wave" | "BidirectionalWave"
    reverseTraversal,     \* boolean
    dfsPath,              \* PathResult | null
    pathNodes,            \* Set<string>
    pathEdges,            \* Set<string>   edge keys
    animationSteps,       \* AnimationStep[]
    currentStepIndex,     \* number, -1 when idle
    isAnimating,          \* boolean
    animationSpeed,       \* number (ms)
    currentNode,          \* string | null
    currentEdge,          \* {source, target} | null
    visitedNodes,         \* Set<string>
    visitedEdges,         \* Set<string>   edge keys
    currentPathAnimation, \* string[]
    isBacktracking,       \* boolean
    edgeToWaveMap,        \* Map<edge key, {number, isBackward}>, as a set of entries
    edits                 \* settings and graph edits made since mount (model bound)

graphVars  == <<cities, connections, links, hoveredEdge, sourceNodeId>>
selVars    == <<startCity, endCity, algorithm, reverseTraversal>>
resultVars == <<dfsPath, pathNodes, pathEdges, animationSteps>>
playerVars == <<currentStepIndex, isAnimating, animationSpeed>>
highlightVars == <<currentNode, currentEdge, visitedNodes, visitedEdges,
                   currentPathAnimation, isBacktracking, edgeToWaveMap>>
vars == <<graphVars, selVars, resultVars, playerVars, highlightVars, edits>>

-----------------------------------------------------------------------------
(* Bounds of the model *)

\* Longest edge list the model builds.
MaxEdges == 3
\* Heaviest edge weight the model draws.
MaxWeight == 3
\* Longest node list the model builds.
MaxCities == 3
\* Most settings and graph edits of one session of Spec.
MaxEdits == 2

\* Node ids of the model.
Nodes == {"A", "B", "C"}
\* Edge weights of the model: a light and a heavy edge.
Weights == {1, MaxWeight}

NoCity == ""
NoEdge == <<>>
\* JavaScript Infinity of the distance tables.
Infinity == 1000000

Algorithms == {"DFS", "BFS", "Dijkstra", "Wave", "BidirectionalWave"}

-----------------------------------------------------------------------------
(* Sequence helpers *)

Range(s) == {s[i] : i \in DOMAIN s}

Reverse(s) == [i \in 1..Len(s) |-> s[Len(s) + 1 - i]]

Last(s) == s[Len(s)]

Front(s) == SubSeq(s, 1, Len(s) - 1)

\* Edge keys `${a}-${b}` and `${b}-${a}` of every consecutive pair of a path.
PathEdgeKeys(path) ==
    UNION {{<<path[i], path[i + 1]>>, <<path[i + 1], path[i]>>} :
              i \in 1..(Len(path) - 1)}

-----------------------------------------------------------------------------
(* Animation steps *)

\* A step without waveNodes / waveEdges (DFS, BFS, Dijkstra, first Wave step).
PlainStep(node, edge, path, backtrack) ==
    [currentNode |-> node, visitedEdge |-> edge, currentPath |-> path,
     isBacktrack |-> backtrack, hasWave |-> FALSE, waveNodes |-> <<>>,
     waveEdges |-> <<>>, nextWaveNodes |-> <<>>, waveNumber |-> -1,
     isBackwardWave |-> FALSE]

\* A step carrying waveNodes / waveEdges; waveNumber -1 stands for undefined.
WaveStep(node, edge, path, wNodes, wEdges, nextNodes, number, backward) ==
    [currentNode |-> node, visitedEdge |-> edge, currentPath |-> path,
     isBacktrack |-> FALSE, hasWave |-> TRUE, waveNodes |-> wNodes,
     waveEdges |-> wEdges, nextWaveNodes |-> nextNodes, waveNumber |-> number,
     isBackwardWave |-> backward]

NoResult == [found |-> FALSE, path |-> <<>>, totalDistance |-> 0]

PathResult(path, dist) == [found |-> TRUE, path |-> path, totalDistance |-> dist]

\* What an engine hands to the store: the result and the trace.
Outcome(res, steps) == [result |-> res, steps |-> steps]

NoOutcome == Outcome(NoResult, <<>>)

-----------------------------------------------------------------------------
(* Adjacency builder *)

\* A builder that reads every link source to target, whatever the direction mode.
AddLinkForward(adj, link, rev) ==
    LET fwd == [city |-> link.target, distance |-> link.distance]
        bwd == [city |-> link.source, distance |-> link.distance]
        push(a, k, e) == IF k \in DOMAIN a THEN [a EXCEPT ![k] = Append(@, e)] ELSE a
    IN  IF link.directed
        THEN push(adj, link.source, fwd)
        ELSE push(push(adj, link.source, fwd), link.target, bwd)

\* A builder that, reversed, reads every link target to source only.
AddLinkReversedOneWay(adj, link, rev) ==
    LET fwd == [city |-> link.target, distance |-> link.distance]
        bwd == [city |-> link.source, distance |-> link.distance]
        push(a, k, e) == IF k \in DOMAIN a THEN [a EXCEPT ![k] = Append(@, e)] ELSE a
    IN  IF rev
        THEN push(adj, link.target, bwd)
        ELSE IF link.directed
             THEN push(adj, link.source, fwd)
             ELSE push(push(adj, link.source, fwd), link.target, bwd)

\* A builder that, reversed, lets every link be followed both ways.
AddLinkBothWaysReversed(adj, link, rev) ==
    LET fwd == [city |-> link.target, distance |-> link.distance]
        bwd == [city |-> link.source, distance |-> link.distance]
        push(a, k, e) == IF k \in DOMAIN a THEN [a EXCEPT ![k] = Append(@, e)] ELSE a
    IN  IF rev \/ ~link.directed
        THEN push(push(adj, link.source, fwd), link.target, bwd)
        ELSE push(adj, link.source, fwd)

\* One link's pushes onto the adjacency list.
AddLink(adj, link, rev) ==
    LET fwd == [city |-> link.target, distance |-> link.distance]
        bwd == [city |-> link.source, distance |-> link.distance]
        push(a, k, e) == IF k \in DOMAIN a THEN [a EXCEPT ![k] = Append(@, e)] ELSE a
    IN  IF rev
        THEN IF link.directed
             THEN push(adj, link.target, bwd)
             ELSE push(push(adj, link.source, fwd), link.target, bwd)
        ELSE IF link.directed
             THEN push(adj, link.source, fwd)
             ELSE push(push(adj, link.source, fwd), link.target, bwd)

RECURSIVE AddLinks(_, _, _, _)
AddLinks(adj, ls, rev, i) ==
    IF i > Len(ls) THEN adj ELSE AddLinks(AddLink(adj, ls[i], rev), ls, rev, i + 1)

buildAdjacencyList(cs, ls, rev) ==
    AddLinks([c \in Range(cs) |-> <<>>], ls, rev, 1)

\* A neighbour order that is reversed in both direction modes.
NeighborsReversed(adj, current, rev) == Reverse(adj[current])

\* const neighbors = [...adjacencyList[current]]; if (reverseTraversal) neighbors.reverse();
Neighbors(adj, current, rev) ==
    IF rev THEN Reverse(adj[current]) ELSE adj[current]

\* reconstructCurrentPath: walk previous[] back from current.
RECURSIVE reconstructCurrentPath(_, _)
reconstructCurrentPath(previous, current) ==
    IF current = NoCity THEN <<>>
    ELSE IF current \notin DOMAIN previous \/ previous[current] = NoCity
         THEN <<current>>
         ELSE Append(reconstructCurrentPath(previous, previous[current]), current)

-----------------------------------------------------------------------------
(* DFS engine *)

\* Mutable locals of performDFS threaded through the recursion:
\* visited, animSteps, distanceMap, the shared currentPath array, pathStack.
DfsStart(cs) ==
    [visited |-> {}, steps |-> <<>>, distanceMap |-> [c \in Range(cs) |-> 0],
     currentPath |-> <<>>, pathStack |-> <<>>, found |-> FALSE]

\* A running total that forgets the distance travelled so far.
StepDistanceLastHop(currentDistance, neighbor) == neighbor.distance

\* const tempDistance = currentDistance + neighbor.distance;
StepDistance(currentDistance, neighbor) == currentDistance + neighbor.distance

RECURSIVE dfs(_, _, _, _, _, _)
RECURSIVE dfsNeighbors(_, _, _, _, _, _, _, _)

\* A neighbour loop that leaves the exhausted node on currentPath.
dfsNeighborsKeepPath(st, adj, rev, current, target, currentDistance, neighbors, i) ==
    IF i > Len(neighbors)
    THEN [st EXCEPT
             !.steps = Append(@, PlainStep(current, NoEdge, st.currentPath, TRUE)),
             !.found = FALSE]
    ELSE LET neighbor == neighbors[i] IN
         IF neighbor.city \in st.visited
         THEN dfsNeighbors(st, adj, rev, current, target, currentDistance, neighbors, i + 1)
         ELSE LET tempDistance == StepDistance(currentDistance, neighbor)
                  probed == [st EXCEPT
                                !.steps = Append(@, PlainStep(current, <<current, neighbor.city>>,
                                                              st.currentPath, FALSE)),
                                !.distanceMap = IF neighbor.city \in DOMAIN @
                                                THEN [@ EXCEPT ![neighbor.city] = tempDistance]
                                                ELSE @]
                  sub == dfs(probed, adj, rev, neighbor.city, target, tempDistance)
              IN  IF sub.found THEN sub
                  ELSE dfsNeighbors(sub, adj, rev, current, target, currentDistance,
                                    neighbors, i + 1)

\* The body of dfs(current, target, currentPath, currentDistance).
dfs(st, adj, rev, current, target, currentDistance) ==
    IF current = target
    THEN [st EXCEPT !.pathStack = st.currentPath \o <<current>>, !.found = TRUE]
    ELSE LET entered == [st EXCEPT
                            !.visited = @ \cup {current},
                            !.steps = Append(@, PlainStep(current, NoEdge, st.currentPath, FALSE)),
                            !.currentPath = Append(@, current)]
         IN  dfsNeighbors(entered, adj, rev, current, target, currentDistance,
                          Neighbors(adj, current, rev), 1)

\* for (const neighbor of neighbors) { ... }  then the Backtrack step.
dfsNeighbors(st, adj, rev, current, target, currentDistance, neighbors, i) ==
    IF i > Len(neighbors)
    THEN [st EXCEPT
             !.steps = Append(@, PlainStep(current, NoEdge, st.currentPath, TRUE)),
             !.currentPath = Front(@),
             !.found = FALSE]
    ELSE LET neighbor == neighbors[i] IN
         IF neighbor.city \in st.visited
         THEN dfsNeighbors(st, adj, rev, current, target, currentDistance, neighbors, i + 1)
         ELSE LET tempDistance == StepDistance(currentDistance, neighbor)
                  probed == [st EXCEPT
                                !.steps = Append(@, PlainStep(current, <<current, neighbor.city>>,
                                                              st.currentPath, FALSE)),
                                !.distanceMap = IF neighbor.city \in DOMAIN @
                                                THEN [@ EXCEPT ![neighbor.city] = tempDistance]
                                                ELSE @]
                  sub == dfs(probed, adj, rev, neighbor.city, target, tempDistance)
              IN  IF sub.found THEN sub
                  ELSE dfsNeighbors(sub, adj, rev, current, target, currentDistance,
                                    neighbors, i + 1)

\* performDFS past its guard: the result and the trace it stores.
DFSOutcome(cs, ls, rev, start, end) ==
    LET adj == buildAdjacencyList(cs, ls, rev)
        run == dfs(DfsStart(cs), adj, rev, start, end, 0)
    IN  IF Len(run.pathStack) > 0
        THEN Outcome(PathResult(run.pathStack, run.distanceMap[end]), run.steps)
        ELSE NoOutcome

-----------------------------------------------------------------------------
(* BFS engine *)

\* A neighbour loop that stops after the first neighbour it enqueues.
RECURSIVE bfsFirstNeighbor(_, _, _, _, _, _)
bfsFirstNeighbor(st, node, currentPath, distance, neighbors, i) ==
    IF i > Len(neighbors) THEN st
    ELSE IF neighbors[i].city \in st.visited
         THEN bfsFirstNeighbor(st, node, currentPath, distance, neighbors, i + 1)
         ELSE [st EXCEPT
                  !.visited = @ \cup {neighbors[i].city},
                  !.queue = Append(@, [node |-> neighbors[i].city, path |-> currentPath,
                                       distance |-> distance + neighbors[i].distance])]

\* for (const neighbor of neighbors) of the BFS loop: marks at enqueue time.
RECURSIVE bfsNeighbors(_, _, _, _, _, _)
bfsNeighbors(st, node, currentPath, distance, neighbors, i) ==
    IF i > Len(neighbors) THEN st
    ELSE LET neighbor == neighbors[i] IN
         IF neighbor.city \in st.visited
         THEN bfsNeighbors(st, node, currentPath, distance, neighbors, i + 1)
         ELSE bfsNeighbors(
                [st EXCEPT
                    !.visited = @ \cup {neighbor.city},
                    !.steps = @ \o <<PlainStep(node, <<node, neighbor.city>>, currentPath, FALSE),
                                     PlainStep(neighbor.city, NoEdge, currentPath, FALSE)>>,
                    !.queue = Append(@, [node |-> neighbor.city, path |-> currentPath,
                                         distance |-> distance + neighbor.distance])],
                node, currentPath, distance, neighbors, i + 1)

\* queue.shift(): takes the oldest entry.
Shift(queue) == [head |-> Head(queue), rest |-> Tail(queue)]

\* while (queue.length > 0) { ... }
RECURSIVE bfsLoop(_, _, _, _)
bfsLoop(st, adj, rev, end) ==
    IF Len(st.queue) = 0 THEN NoOutcome
    ELSE LET shifted == Shift(st.queue)
             head == shifted.head
             currentPath == Append(head.path, head.node)
         IN  IF head.node = end
             THEN Outcome(PathResult(currentPath, head.distance), st.steps)
             ELSE bfsLoop(bfsNeighbors([st EXCEPT !.queue = shifted.rest], head.node, currentPath,
                                       head.distance, Neighbors(adj, head.node, rev), 1),
                          adj, rev, end)

\* performBFS past its guard.
BFSOutcome(cs, ls, rev, start, end) ==
    bfsLoop([queue |-> <<[node |-> start, path |-> <<>>, distance |-> 0]>>,
             visited |-> {start},
             steps |-> <<PlainStep(start, NoEdge, <<>>, FALSE)>>],
            buildAdjacencyList(cs, ls, rev), rev, end)

-----------------------------------------------------------------------------
(* Dijkstra engine *)

\* unvisited.forEach scan for the smallest tentative distance (first wins a tie;
\* the Set iterates in insertion order, which is the order of cities).
RECURSIVE pickMin(_, _, _, _, _, _)
pickMin(cs, unvisited, distances, i, current, minDistance) ==
    IF i > Len(cs) THEN current
    ELSE IF cs[i] \in unvisited /\ distances[cs[i]] < minDistance
         THEN pickMin(cs, unvisited, distances, i + 1, cs[i], distances[cs[i]])
         ELSE pickMin(cs, unvisited, distances, i + 1, current, minDistance)

\* A relaxation that only ever assigns a first distance.
RelaxesUnreachedOnly(potentialDistance, known) == known = Infinity

\* The relaxation test of one neighbour edge.
Relaxes(potentialDistance, known) == potentialDistance < known

\* adjacencyList[current].forEach: a Probe per unvisited neighbour, a Visit per relaxation.
RECURSIVE relaxNeighbors(_, _, _, _)
relaxNeighbors(st, current, neighbors, i) ==
    IF i > Len(neighbors) THEN st
    ELSE LET neighbor == neighbors[i] IN
         IF neighbor.city \notin st.unvisited
         THEN relaxNeighbors(st, current, neighbors, i + 1)
         ELSE LET potentialDistance == st.distances[current] + neighbor.distance
                  probe == PlainStep(current, <<current, neighbor.city>>,
                                     reconstructCurrentPath(st.previous, current), FALSE)
              IN  IF Relaxes(potentialDistance, st.distances[neighbor.city])
                  THEN LET previous == [st.previous EXCEPT ![neighbor.city] = current]
                       IN  relaxNeighbors(
                             [st EXCEPT
                                 !.distances = [@ EXCEPT ![neighbor.city] = potentialDistance],
                                 !.previous = previous,
                                 !.steps = @ \o <<probe,
                                                  PlainStep(neighbor.city, NoEdge,
                                                            reconstructCurrentPath(previous, neighbor.city),
                                                            FALSE)>>],
                             current, neighbors, i + 1)
                  ELSE relaxNeighbors([st EXCEPT !.steps = Append(@, probe)],
                                      current, neighbors, i + 1)

\* while (unvisited.size > 0) { ... }
RECURSIVE dijkstraLoop(_, _, _, _)
dijkstraLoop(st, cs, adj, end) ==
    IF st.unvisited = {} THEN st
    ELSE LET current == pickMin(cs, st.unvisited, st.distances, 1, NoCity, Infinity) IN
         IF current = NoCity THEN st
         ELSE IF current = end THEN st
         ELSE dijkstraLoop(relaxNeighbors([st EXCEPT !.unvisited = @ \ {current}],
                                          current, adj[current], 1),
                           cs, adj, end)

\* performDijkstra past its guard.
DijkstraOutcome(cs, ls, rev, start, end) ==
    LET adj == buildAdjacencyList(cs, ls, rev)
        run == dijkstraLoop(
                 [distances |-> [c \in Range(cs) |-> IF c = start THEN 0 ELSE Infinity],
                  previous |-> [c \in Range(cs) |-> NoCity],
                  unvisited |-> Range(cs),
                  steps |-> <<PlainStep(start, NoEdge, <<>>, FALSE)>>],
                 cs, adj, end)
    IN  IF run.previous[end] # NoCity \/ start = end
        THEN Outcome(PathResult(reconstructCurrentPath(run.previous, end), run.distances[end]),
                     run.steps)
        ELSE NoOutcome

-----------------------------------------------------------------------------
(* Wave engine *)

\* The dequeue loop of one wave: shift up to waveSize nodes, stopping after the target.
RECURSIVE takeWave(_, _, _)
takeWave(queue, wave, end) ==
    IF Len(queue) = 0 THEN [currentWave |-> wave, queue |-> queue, foundPath |-> FALSE]
    ELSE IF Head(queue) = end
         THEN [currentWave |-> Append(wave, end), queue |-> Tail(queue), foundPath |-> TRUE]
         ELSE takeWave(Tail(queue), Append(wave, Head(queue)), end)

\* A Wave expansion whose distance table holds the weight of the last hop only.
RECURSIVE waveNeighborsLastHop(_, _, _, _)
waveNeighborsLastHop(st, current, neighbors, i) ==
    IF i > Len(neighbors) THEN st
    ELSE LET neighbor == neighbors[i] IN
         IF neighbor.city \in st.visited
         THEN waveNeighborsLastHop(st, current, neighbors, i + 1)
         ELSE waveNeighborsLastHop(
                [st EXCEPT
                    !.visited = @ \cup {neighbor.city},
                    !.previous = [@ EXCEPT ![neighbor.city] = current],
                    !.distances = [@ EXCEPT ![neighbor.city] = neighbor.distance],
                    !.waveEdges = Append(@, <<current, neighbor.city>>),
                    !.nextWaveNodes = Append(@, neighbor.city),
                    !.queue = Append(@, neighbor.city)],
                current, neighbors, i + 1)

\* A Wave expansion that queues every discovered node twice.
RECURSIVE waveNeighborsQueuedTwice(_, _, _, _)
waveNeighborsQueuedTwice(st, current, neighbors, i) ==
    IF i > Len(neighbors) THEN st
    ELSE LET neighbor == neighbors[i] IN
         IF neighbor.city \in st.visited
         THEN waveNeighborsQueuedTwice(st, current, neighbors, i + 1)
         ELSE waveNeighborsQueuedTwice(
                [st EXCEPT
                    !.visited = @ \cup {neighbor.city},
                    !.previous = [@ EXCEPT ![neighbor.city] = current],
                    !.distances = [@ EXCEPT ![neighbor.city] = st.distances[current] + neighbor.distance],
                    !.waveEdges = Append(@, <<current, neighbor.city>>),
                    !.nextWaveNodes = Append(@, neighbor.city),
                    !.queue = @ \o <<neighbor.city, neighbor.city>>],
                current, neighbors, i + 1)

\* for (const neighbor of neighbors) of the Wave expansion.
RECURSIVE waveNeighbors(_, _, _, _)
waveNeighbors(st, current, neighbors, i) ==
    IF i > Len(neighbors) THEN st
    ELSE LET neighbor == neighbors[i] IN
         IF neighbor.city \in st.visited
         THEN waveNeighbors(st, current, neighbors, i + 1)
         ELSE waveNeighbors(
                [st EXCEPT
                    !.visited = @ \cup {neighbor.city},
                    !.previous = [@ EXCEPT ![neighbor.city] = current],
                    !.distances = [@ EXCEPT ![neighbor.city] = st.distances[current] + neighbor.distance],
                    !.waveEdges = Append(@, <<current, neighbor.city>>),
                    !.nextWaveNodes = Append(@, neighbor.city),
                    !.queue = Append(@, neighbor.city)],
                current, neighbors, i + 1)

\* for (const current of currentWave) { ... }
RECURSIVE waveExpand(_, _, _, _, _)
waveExpand(st, adj, rev, currentWave, k) ==
    IF k > Len(currentWave) THEN st
    ELSE waveExpand(waveNeighbors(st, currentWave[k], Neighbors(adj, currentWave[k], rev), 1),
                    adj, rev, currentWave, k + 1)

\* while (queue.length > 0 && !foundPath) { ... }
RECURSIVE waveLoop(_, _, _, _)
waveLoop(st, adj, rev, end) ==
    IF Len(st.queue) = 0 \/ st.foundPath THEN st
    ELSE LET taken == takeWave(st.queue, <<>>, end)
             base == [st EXCEPT !.queue = taken.queue, !.foundPath = taken.foundPath,
                                !.waveEdges = <<>>, !.nextWaveNodes = <<>>]
             grown == waveExpand(base, adj, rev, taken.currentWave, 1)
             step == WaveStep(taken.currentWave[1], grown.waveEdges[1],
                              reconstructCurrentPath(grown.previous, taken.currentWave[1]),
                              taken.currentWave, grown.waveEdges, grown.nextWaveNodes,
                              grown.waveCounter, FALSE)
         IN  waveLoop(IF Len(grown.waveEdges) > 0
                      THEN [grown EXCEPT !.steps = Append(@, step), !.waveCounter = @ + 1]
                      ELSE grown,
                      adj, rev, end)

\* performWave past its guard.
WaveOutcome(cs, ls, rev, start, end) ==
    LET run == waveLoop(
                 [queue |-> <<start>>, visited |-> {start},
                  previous |-> [c \in Range(cs) |-> NoCity],
                  distances |-> [c \in Range(cs) |-> IF c = start THEN 0 ELSE Infinity],
                  steps |-> <<PlainStep(start, NoEdge, <<>>, FALSE)>>,
                  waveCounter |-> 0, foundPath |-> FALSE,
                  waveEdges |-> <<>>, nextWaveNodes |-> <<>>],
                 buildAdjacencyList(cs, ls, rev), rev, end)
    IN  IF run.foundPath
        THEN Outcome(PathResult(reconstructCurrentPath(run.previous, end), run.distances[end]),
                     run.steps)
        ELSE NoOutcome

-----------------------------------------------------------------------------
(* Bidirectional Wave engine *)

\* One side of the search: its visited set, predecessor and distance tables, queue
\* and wave counter.  The two sides run the same code on the same adjacency list.
BiSide(cs, origin) ==
    [visited |-> {origin},
     previous |-> [c \in Range(cs) |-> NoCity],
     distances |-> [c \in Range(cs) |-> IF c = origin THEN 0 ELSE Infinity],
     queue |-> <<origin>>,
     waveCounter |-> 0]

\* The dequeue loop of one side: shift the wave, stopping at a node the other side visited.
RECURSIVE biTakeWave(_, _, _)
biTakeWave(queue, wave, otherVisited) ==
    IF Len(queue) = 0 THEN [currentWave |-> wave, queue |-> queue, meetingNode |-> NoCity]
    ELSE IF Head(queue) \in otherVisited
         THEN [currentWave |-> Append(wave, Head(queue)), queue |-> Tail(queue),
               meetingNode |-> Head(queue)]
         ELSE biTakeWave(Tail(queue), Append(wave, Head(queue)), otherVisited)

\* A neighbour loop that never looks at the other side's visited set.
RECURSIVE biNeighborsUnaware(_, _, _, _, _)
biNeighborsUnaware(ex, otherVisited, current, neighbors, i) ==
    IF i > Len(neighbors) THEN ex
    ELSE LET neighbor == neighbors[i] IN
         IF neighbor.city \in ex.side.visited
         THEN biNeighborsUnaware(ex, otherVisited, current, neighbors, i + 1)
         ELSE biNeighborsUnaware(
                [ex EXCEPT
                    !.side.visited = @ \cup {neighbor.city},
                    !.side.previous = [@ EXCEPT ![neighbor.city] = current],
                    !.side.distances = [@ EXCEPT ![neighbor.city] =
                                           ex.side.distances[current] + neighbor.distance],
                    !.side.queue = Append(@, neighbor.city),
                    !.waveEdges = Append(@, <<current, neighbor.city>>),
                    !.nextWaveNodes = Append(@, neighbor.city)],
                otherVisited, current, neighbors, i + 1)

\* for (const neighbor of neighbors): breaks at the first newly discovered neighbour
\* that the other side has visited.
RECURSIVE biNeighbors(_, _, _, _, _)
biNeighbors(ex, otherVisited, current, neighbors, i) ==
    IF i > Len(neighbors) THEN ex
    ELSE LET neighbor == neighbors[i] IN
         IF neighbor.city \in ex.side.visited
         THEN biNeighbors(ex, otherVisited, current, neighbors, i + 1)
         ELSE LET added == [ex EXCEPT
                               !.side.visited = @ \cup {neighbor.city},
                               !.side.previous = [@ EXCEPT ![neighbor.city] = current],
                               !.side.distances = [@ EXCEPT ![neighbor.city] =
                                                      ex.side.distances[current] + neighbor.distance],
                               !.side.queue = Append(@, neighbor.city),
                               !.waveEdges = Append(@, <<current, neighbor.city>>),
                               !.nextWaveNodes = Append(@, neighbor.city)]
              IN  IF neighbor.city \in otherVisited
                  THEN [added EXCEPT !.meetingNode = neighbor.city]
                  ELSE biNeighbors(added, otherVisited, current, neighbors, i + 1)

\* for (const current of currentWave): stops once a meeting node is set.
RECURSIVE biExpand(_, _, _, _, _, _)
biExpand(ex, otherVisited, adj, rev, currentWave, k) ==
    IF k > Len(currentWave) \/ ex.meetingNode # NoCity THEN ex
    ELSE biExpand(biNeighbors(ex, otherVisited, currentWave[k],
                              Neighbors(adj, currentWave[k], rev), 1),
                  otherVisited, adj, rev, currentWave, k + 1)

\* The tail of one side's turn, after its wave was expanded into ex: the WaveExpand
\* step is appended only if (waveEdges.length > 0).
biRecord(steps, backward, taken, ex) ==
    IF Len(ex.waveEdges) > 0
    THEN [side |-> [ex.side EXCEPT !.waveCounter = @ + 1],
          steps |-> Append(steps, WaveStep(NoCity, NoEdge, <<>>, taken.currentWave,
                                           ex.waveEdges, ex.nextWaveNodes,
                                           ex.side.waveCounter, backward)),
          meetingNode |-> ex.meetingNode]
    ELSE [side |-> ex.side, steps |-> steps, meetingNode |-> ex.meetingNode]

\* One side's turn once the wave was dequeued into taken: a meeting node found while
\* dequeuing ends the turn, otherwise the wave is expanded.
biAfterTake(side, otherVisited, steps, adj, rev, backward, taken) ==
    IF taken.meetingNode # NoCity
    THEN [side |-> [side EXCEPT !.queue = taken.queue], steps |-> steps,
          meetingNode |-> taken.meetingNode]
    ELSE biRecord(steps, backward, taken,
                  biExpand([side |-> [side EXCEPT !.queue = taken.queue],
                            waveEdges |-> <<>>, nextWaveNodes |-> <<>>,
                            meetingNode |-> NoCity],
                           otherVisited, adj, rev, taken.currentWave, 1))

\* One side's turn: dequeue a wave, expand it, append its WaveExpand step.
\* Returns the side, the trace and the meeting node ("" when none).
biTurn(side, otherVisited, steps, adj, rev, backward) ==
    biAfterTake(side, otherVisited, steps, adj, rev, backward,
                biTakeWave(side.queue, <<>>, otherVisited))

\* if (queueForward.length > 0 && !foundPath) { ... }
biForward(st, adj, rev) ==
    IF Len(st.forward.queue) > 0
    THEN biTurn(st.forward, st.backward.visited, st.steps, adj, rev, FALSE)
    ELSE [side |-> st.forward, steps |-> st.steps, meetingNode |-> NoCity]

\* if (queueBackward.length > 0 && !foundPath) { ... }, after the forward turn f.
biBackward(st, f, adj, rev) ==
    IF Len(st.backward.queue) > 0
    THEN biTurn(st.backward, f.side.visited, f.steps, adj, rev, TRUE)
    ELSE [side |-> st.backward, steps |-> f.steps, meetingNode |-> NoCity]

\* The search state after one pass of the loop body with turns f and b.
biMerge(st, f, b) ==
    [st EXCEPT !.forward = f.side, !.backward = b.side,
               !.steps = b.steps, !.meetingNode = b.meetingNode]

\* while ((queueForward.length > 0 || queueBackward.length > 0) && !foundPath) { ... }
RECURSIVE biLoop(_, _, _)
RECURSIVE biPass(_, _, _, _)
biPass(st, f, adj, rev) ==
    IF f.meetingNode # NoCity
    THEN [st EXCEPT !.forward = f.side, !.steps = f.steps, !.meetingNode = f.meetingNode]
    ELSE biLoop(biMerge(st, f, biBackward(st, f, adj, rev)), adj, rev)

biLoop(st, adj, rev) ==
    IF (Len(st.forward.queue) = 0 /\ Len(st.backward.queue) = 0) \/ st.meetingNode # NoCity
    THEN st
    ELSE biPass(st, biForward(st, adj, rev), adj, rev)

\* links.find(l => either orientation matches): the first such link, or none.
RECURSIVE findLink(_, _, _, _)
findLink(ls, source, target, i) ==
    IF i > Len(ls) THEN <<>>
    ELSE IF \/ (ls[i].source = source /\ ls[i].target = target)
            \/ (ls[i].source = target /\ ls[i].target = source)
         THEN <<ls[i]>>
         ELSE findLink(ls, source, target, i + 1)

\* The totalDistance loop over the consecutive pairs of fullPath.
RECURSIVE recomputeDistance(_, _, _)
recomputeDistance(ls, fullPath, i) ==
    IF i > Len(fullPath) - 1 THEN 0
    ELSE LET link == findLink(ls, fullPath[i], fullPath[i + 1], 1)
         IN  (IF Len(link) > 0 THEN link[1].distance ELSE 0)
             + recomputeDistance(ls, fullPath, i + 1)

\* A reconstruction whose backward half starts at the meeting node itself.
biOutcomeFromMeeting(ls, run) ==
    LET meetingNode == run.meetingNode
        forwardPath == reconstructCurrentPath(run.forward.previous, meetingNode)
        backwardPath == Reverse(reconstructCurrentPath(run.backward.previous, meetingNode))
        fullPath == forwardPath \o backwardPath
    IN  IF meetingNode # NoCity
        THEN Outcome(PathResult(fullPath, recomputeDistance(ls, fullPath, 1)),
                     run.steps \o
                     <<WaveStep(meetingNode, NoEdge, <<>>, <<meetingNode>>, <<>>, <<>>, -1, FALSE),
                       WaveStep(NoCity, NoEdge, fullPath, <<>>, <<>>, <<>>, -1, FALSE)>>)
        ELSE NoOutcome

\* Path reconstruction through the meeting node and the stored outcome.
biOutcome(ls, run) ==
    LET meetingNode == run.meetingNode
        forwardPath == reconstructCurrentPath(run.forward.previous, meetingNode)
        backwardPath == Reverse(reconstructCurrentPath(run.backward.previous,
                                                       run.backward.previous[meetingNode]))
        fullPath == forwardPath \o backwardPath
    IN  IF meetingNode # NoCity
        THEN Outcome(PathResult(fullPath, recomputeDistance(ls, fullPath, 1)),
                     run.steps \o
                     <<WaveStep(meetingNode, NoEdge, <<>>, <<meetingNode>>, <<>>, <<>>, -1, FALSE),
                       WaveStep(NoCity, NoEdge, fullPath, <<>>, <<>>, <<>>, -1, FALSE)>>)
        ELSE NoOutcome

\* The locals of performBidirectionalWave before its loop: both sides, the two
\* initial steps, and no meeting node.
BiStart(cs, start, end) ==
    [forward |-> BiSide(cs, start), backward |-> BiSide(cs, end),
     steps |-> <<WaveStep(start, NoEdge, <<start>>, <<start>>, <<>>, <<>>, -1, FALSE),
                 WaveStep(end, NoEdge, <<end>>, <<end>>, <<>>, <<>>, -1, FALSE)>>,
     meetingNode |-> NoCity]

\* performBidirectionalWave past its guard.
BidirectionalWaveOutcome(cs, ls, rev, start, end) ==
    biOutcome(ls, biLoop(BiStart(cs, start, end), buildAdjacencyList(cs, ls, rev), rev))

-----------------------------------------------------------------------------
(* findPath: guard, engine dispatch, and what the engines store *)

\* A guard without the startCity === endCity test.
SearchSkippedUnset(start, end) == start = NoCity \/ end = NoCity

\* if (!startCity || !endCity || startCity === endCity): the search is skipped.
SearchSkipped(start, end) == start = NoCity \/ end = NoCity \/ start = end

\* findPath's dispatch on the selected algorithm, past the guard.
EngineOutcome(alg, cs, ls, rev, start, end) ==
    CASE alg = "DFS" -> DFSOutcome(cs, ls, rev, start, end)
      [] alg = "BFS" -> BFSOutcome(cs, ls, rev, start, end)
      [] alg = "Dijkstra" -> DijkstraOutcome(cs, ls, rev, start, end)
      [] alg = "Wave" -> WaveOutcome(cs, ls, rev, start, end)
      [] alg = "BidirectionalWave" -> BidirectionalWaveOutcome(cs, ls, rev, start, end)

\* The outcome of performDFS / performBFS / ... including the guard.
SearchOutcome(alg, cs, ls, rev, start, end) ==
    IF SearchSkipped(start, end) THEN NoOutcome
    ELSE EngineOutcome(alg, cs, ls, rev, start, end)

\* resetAnimationState: empties the highlight state and stops the player.
ResetHighlight ==
    /\ currentNode' = NoCity
    /\ currentEdge' = NoEdge
    /\ visitedNodes' = {}
    /\ visitedEdges' = {}
    /\ currentPathAnimation' = <<>>
    /\ isBacktracking' = FALSE
    /\ edgeToWaveMap' = {}
    /\ isAnimating' = FALSE

\* A clearing that leaves the trace in place.
ClearResultKeepsTrace ==
    /\ dfsPath' = NoResult
    /\ pathNodes' = {}
    /\ pathEdges' = {}
    /\ animationSteps' = animationSteps
    /\ currentStepIndex' = -1
    /\ ResetHighlight

\* setDfsPath(null); setPathNodes(new Set()); setPathEdges(new Set());
\* setAnimationSteps([]); setCurrentStepIndex(-1); resetAnimationState();
ClearResult ==
    /\ dfsPath' = NoResult
    /\ pathNodes' = {}
    /\ pathEdges' = {}
    /\ animationSteps' = <<>>
    /\ currentStepIndex' = -1
    /\ ResetHighlight

\* The tail of every engine: store the result and the trace, or clear both.
StoreOutcome(out) ==
    IF out.result.found
    THEN /\ dfsPath' = out.result
         /\ pathNodes' = Range(out.result.path)
         /\ pathEdges' = PathEdgeKeys(out.result.path)
         /\ animationSteps' = out.steps
         /\ currentStepIndex' = -1
         /\ ResetHighlight
    ELSE ClearResult

\* The "Find Path" button.
FindPath ==
    /\ StoreOutcome(SearchOutcome(algorithm, cities, links, reverseTraversal, startCity, endCity))
    /\ UNCHANGED <<graphVars, selVars, animationSpeed, edits>>

-----------------------------------------------------------------------------
(* Trace player *)

EdgeKeys(edge) == {<<edge[1], edge[2]>>, <<edge[2], edge[1]>>}

EdgeKeysOf(edges) == UNION {EdgeKeys(edges[i]) : i \in 1..Len(edges)}

\* The highlight state the timeout callback folds a step into.
EmptyHighlight ==
    [currentNode |-> NoCity, currentEdge |-> NoEdge, visitedNodes |-> {},
     visitedEdges |-> {}, currentPathAnimation |-> <<>>, isBacktracking |-> FALSE,
     edgeToWaveMap |-> {}, pathEdges |-> {}]

\* The body of the timeout callback: one step applied to the highlight state.
ApplyStep(h, step) ==
    LET shown ==
            IF step.hasWave
            THEN [h EXCEPT
                     !.edgeToWaveMap =
                         {e \in @ : e.key \notin EdgeKeysOf(step.waveEdges)} \cup
                         {[key |-> k, number |-> step.waveNumber,
                           isBackward |-> step.isBackwardWave] : k \in EdgeKeysOf(step.waveEdges)},
                     !.visitedNodes = @ \cup Range(step.waveNodes),
                     !.visitedEdges = @ \cup EdgeKeysOf(step.waveEdges),
                     !.currentNode = NoCity,
                     !.currentEdge = NoEdge]
            ELSE [h EXCEPT
                     !.currentNode = step.currentNode,
                     !.visitedNodes = @ \cup {step.currentNode},
                     !.currentEdge = step.visitedEdge,
                     !.visitedEdges = IF step.visitedEdge # NoEdge
                                      THEN @ \cup EdgeKeys(step.visitedEdge) ELSE @]
    IN  [shown EXCEPT
            !.currentPathAnimation = step.currentPath,
            !.pathEdges = IF Len(step.currentPath) > 0
                          THEN PathEdgeKeys(step.currentPath) \cup
                               (IF step.visitedEdge # NoEdge THEN EdgeKeys(step.visitedEdge) ELSE {})
                          ELSE @,
            !.isBacktracking = step.isBacktrack]

\* The steps steps[1..n] applied in order to h.
RECURSIVE Replay(_, _, _)
Replay(h, steps, n) ==
    IF n = 0 THEN h ELSE ApplyStep(Replay(h, steps, n - 1), steps[n])

Highlight ==
    [currentNode |-> currentNode, currentEdge |-> currentEdge, visitedNodes |-> visitedNodes,
     visitedEdges |-> visitedEdges, currentPathAnimation |-> currentPathAnimation,
     isBacktracking |-> isBacktracking, edgeToWaveMap |-> edgeToWaveMap,
     pathEdges |-> pathEdges]

-----------------------------------------------------------------------------
(* Player controls and the animation effect *)

\* A play button that does not look at the trace.
StartAnimationUnguarded ==
    /\ ~isAnimating
    /\ isAnimating' = TRUE
    /\ currentStepIndex' = 0
    /\ pathNodes' = IF Len(animationSteps) > 0 THEN {} ELSE pathNodes
    /\ UNCHANGED <<graphVars, selVars, dfsPath, pathEdges, animationSteps, animationSpeed,
                   highlightVars, edits>>

\* The "Play Animation" button (disabled without a trace or while animating), and
\* the animation effect's setPathNodes(new Set()) that follows the re-render.
StartAnimation ==
    /\ Len(animationSteps) > 0
    /\ ~isAnimating
    /\ isAnimating' = TRUE
    /\ currentStepIndex' = 0
    /\ pathNodes' = {}
    /\ UNCHANGED <<graphVars, selVars, dfsPath, pathEdges, animationSteps, animationSpeed,
                   highlightVars, edits>>

\* A stop button that also resets the highlight.
StopAnimationAndReset ==
    /\ isAnimating
    /\ ResetHighlight
    /\ UNCHANGED <<graphVars, selVars, resultVars, currentStepIndex, animationSpeed, edits>>

\* The "Stop Animation" button (disabled unless animating).
StopAnimation ==
    /\ isAnimating
    /\ isAnimating' = FALSE
    /\ UNCHANGED <<graphVars, selVars, resultVars, currentStepIndex, animationSpeed,
                   highlightVars, edits>>

\* The "Reset" button (disabled without a trace): resetAnimationState.
ResetAnimation ==
    /\ Len(animationSteps) > 0
    /\ ResetHighlight
    /\ UNCHANGED <<graphVars, selVars, resultVars, currentStepIndex, animationSpeed, edits>>

\* The timer is due: the effect's first branch.
StepDue ==
    isAnimating /\ currentStepIndex >= 0 /\ currentStepIndex < Len(animationSteps)

\* A speed drop-down that starts the run over.
SetAnimationSpeedRestart(ms) ==
    /\ edits < MaxEdits
    /\ edits' = edits + 1
    /\ animationSpeed' = ms
    /\ currentStepIndex' = IF isAnimating THEN 0 ELSE currentStepIndex
    /\ pathNodes' = IF StepDue THEN {} ELSE pathNodes
    /\ UNCHANGED <<graphVars, selVars, dfsPath, pathEdges, animationSteps, isAnimating,
                   highlightVars>>

\* The speed drop-down; the animation effect re-arms its timer.
SetAnimationSpeed(ms) ==
    /\ edits < MaxEdits
    /\ edits' = edits + 1
    /\ animationSpeed' = ms
    /\ pathNodes' = IF StepDue THEN {} ELSE pathNodes
    /\ UNCHANGED <<graphVars, selVars, dfsPath, pathEdges, animationSteps, currentStepIndex,
                   isAnimating, highlightVars>>

\* A timeout callback that moves the cursor on by two.
TickSkipping ==
    /\ StepDue
    /\ LET h == ApplyStep(Highlight, animationSteps[currentStepIndex + 1]) IN
          /\ currentNode' = h.currentNode
          /\ currentEdge' = h.currentEdge
          /\ visitedNodes' = h.visitedNodes
          /\ visitedEdges' = h.visitedEdges
          /\ currentPathAnimation' = h.currentPathAnimation
          /\ isBacktracking' = h.isBacktracking
          /\ edgeToWaveMap' = h.edgeToWaveMap
          /\ pathEdges' = h.pathEdges
    /\ currentStepIndex' = currentStepIndex + 2
    /\ pathNodes' = {}
    /\ UNCHANGED <<graphVars, selVars, dfsPath, animationSteps, isAnimating, animationSpeed,
                   edits>>

\* The timeout callback: applies animationSteps[currentStepIndex] and advances.
Tick ==
    /\ StepDue
    /\ LET h == ApplyStep(Highlight, animationSteps[currentStepIndex + 1]) IN
          /\ currentNode' = h.currentNode
          /\ currentEdge' = h.currentEdge
          /\ visitedNodes' = h.visitedNodes
          /\ visitedEdges' = h.visitedEdges
          /\ currentPathAnimation' = h.currentPathAnimation
          /\ isBacktracking' = h.isBacktracking
          /\ edgeToWaveMap' = h.edgeToWaveMap
          /\ pathEdges' = h.pathEdges
    /\ currentStepIndex' = currentStepIndex + 1
    /\ pathNodes' = {}
    /\ UNCHANGED <<graphVars, selVars, dfsPath, animationSteps, isAnimating, animationSpeed,
                   edits>>

\* An end of trace that only stops the player.
FinishAnimationStopOnly ==
    /\ isAnimating
    /\ currentStepIndex >= Len(animationSteps)
    /\ isAnimating' = FALSE
    /\ UNCHANGED <<graphVars, selVars, resultVars, currentStepIndex, animationSpeed,
                   highlightVars, edits>>

\* The effect's second branch, run after the last step's re-render:
\* setIsAnimating(false); findPath();
FinishAnimation ==
    /\ isAnimating
    /\ currentStepIndex >= Len(animationSteps)
    /\ StoreOutcome(SearchOutcome(algorithm, cities, links, reverseTraversal, startCity, endCity))
    /\ UNCHANGED <<graphVars, selVars, animationSpeed, edits>>

-----------------------------------------------------------------------------
(* Selection controls *)

SetStartCity(c) ==
    /\ edits < MaxEdits
    /\ c \in Range(cities)
    /\ startCity' = c
    /\ edits' = edits + 1
    /\ UNCHANGED <<graphVars, endCity, algorithm, reverseTraversal, resultVars, playerVars,
                   highlightVars>>

SetEndCity(c) ==
    /\ edits < MaxEdits
    /\ c \in Range(cities)
    /\ endCity' = c
    /\ edits' = edits + 1
    /\ UNCHANGED <<graphVars, startCity, algorithm, reverseTraversal, resultVars, playerVars,
                   highlightVars>>

SetAlgorithm(a) ==
    /\ edits < MaxEdits
    /\ algorithm' = a
    /\ edits' = edits + 1
    /\ UNCHANGED <<graphVars, startCity, endCity, reverseTraversal, resultVars, playerVars,
                   highlightVars>>

SetReverseTraversal(b) ==
    /\ edits < MaxEdits
    /\ reverseTraversal' = b
    /\ edits' = edits + 1
    /\ UNCHANGED <<graphVars, startCity, endCity, algorithm, resultVars, playerVars,
                   highlightVars>>

-----------------------------------------------------------------------------
(* Graph editing; each handler is followed by the [cities, connections] effect *)

\* An effect that rebuilds links and leaves the selection alone.
CommitKeepsSelection(cs, conns, ls, start, end) ==
    /\ cities' = cs
    /\ connections' = conns
    /\ links' = IF Len(cs) = 0 \/ Len(conns) = 0 THEN ls ELSE conns
    /\ startCity' = start
    /\ endCity' = end

\* The handler's writes to the graph and the selection, then the effect: with both
\* lists non-empty it rebuilds links from connections and selects first / last city.
Commit(cs, conns, ls, start, end) ==
    /\ cities' = cs
    /\ connections' = conns
    /\ IF Len(cs) = 0 \/ Len(conns) = 0
       THEN links' = ls /\ startCity' = start /\ endCity' = end
       ELSE links' = conns /\ startCity' = cs[1] /\ endCity' = cs[Len(cs)]

\* cities.filter((city) => city !== nodeId)
WithoutCity(cs, nodeId) ==
    LET Keep(city) == city # nodeId IN SelectSeq(cs, Keep)

\* An edge filter that only looks at the source end.
WithoutOutgoing(ls, nodeId) ==
    LET Keep(link) == link.source # nodeId IN SelectSeq(ls, Keep)

\* links.filter((link) => link.source !== nodeId && link.target !== nodeId)
WithoutIncident(ls, nodeId) ==
    LET Keep(link) == link.source # nodeId /\ link.target # nodeId IN SelectSeq(ls, Keep)

\* cities.filter(...)[0] || ""
FirstOr(cs) == IF Len(cs) = 0 THEN NoCity ELSE cs[1]

\* A node deletion that leaves the selection to the effect alone.
deleteNodeKeepsSelection(nodeId) ==
    /\ edits < MaxEdits
    /\ nodeId \in Range(cities)
    /\ edits' = edits + 1
    /\ hoveredEdge' = NoEdge
    /\ Commit(WithoutCity(cities, nodeId),
              WithoutIncident(connections, nodeId),
              WithoutIncident(links, nodeId),
              startCity, endCity)
    /\ IF startCity = nodeId \/ endCity = nodeId
       THEN ClearResult
       ELSE UNCHANGED <<resultVars, currentStepIndex, isAnimating, highlightVars>>
    /\ UNCHANGED <<sourceNodeId, algorithm, reverseTraversal, animationSpeed>>

\* Shift + right click on a node; the pointer is on the node, so no edge is hovered.
deleteNode(nodeId) ==
    /\ edits < MaxEdits
    /\ nodeId \in Range(cities)
    /\ edits' = edits + 1
    /\ hoveredEdge' = NoEdge
    /\ LET remaining == WithoutCity(cities, nodeId) IN
          Commit(remaining,
                 WithoutIncident(connections, nodeId),
                 WithoutIncident(links, nodeId),
                 IF startCity = nodeId THEN FirstOr(remaining) ELSE startCity,
                 IF endCity = nodeId THEN FirstOr(remaining) ELSE endCity)
    /\ IF startCity = nodeId \/ endCity = nodeId
       THEN ClearResult
       ELSE UNCHANGED <<resultVars, currentStepIndex, isAnimating, highlightVars>>
    /\ UNCHANGED <<sourceNodeId, algorithm, reverseTraversal, animationSpeed>>

\* links.filter(... neither orientation of (source, target) ...)
WithoutEdge(ls, source, target) ==
    LET Keep(link) == /\ ~(link.source = source /\ link.target = target)
                      /\ ~(link.source = target /\ link.target = source)
    IN  SelectSeq(ls, Keep)

\* pathEdges.has(`${source}-${target}`) || pathEdges.has(`${target}-${source}`)
OnStoredPathEdges(source, target) ==
    <<source, target>> \in pathEdges \/ <<target, source>> \in pathEdges

\* The pointer was moved onto this live link.
PointerOnEdge(source, target) ==
    \E i \in 1..Len(links) : links[i].source = source /\ links[i].target = target

\* No link joins the two ends in either orientation: the filters drop nothing.
DeletesNothing(source, target) == WithoutEdge(links, source, target) = links

\* Shift + right click away from every node, on the hovered edge: the edge the
\* pointer was moved onto, or the one still recorded from the previous delete when
\* the pointer has not moved since. Only a delete that removes a link counts as an
\* edit.
deleteEdge(source, target) ==
    /\ PointerOnEdge(source, target) \/ hoveredEdge = <<source, target>>
    /\ IF DeletesNothing(source, target)
       THEN edits' = edits
       ELSE edits < MaxEdits /\ edits' = edits + 1
    /\ hoveredEdge' = <<source, target>>
    /\ Commit(cities,
              WithoutEdge(connections, source, target),
              WithoutEdge(links, source, target),
              startCity, endCity)
    /\ IF OnStoredPathEdges(source, target)
       THEN ClearResult
       ELSE UNCHANGED <<resultVars, currentStepIndex, isAnimating, highlightVars>>
    /\ UNCHANGED <<sourceNodeId, algorithm, reverseTraversal, animationSpeed>>

addNewNode(name) ==
    /\ edits < MaxEdits
    /\ Len(cities) < MaxCities
    /\ edits' = edits + 1
    /\ Commit(Append(cities, name), connections, links, startCity, endCity)
    /\ UNCHANGED <<hoveredEdge, sourceNodeId, algorithm, reverseTraversal, resultVars,
                   playerVars, highlightVars>>

\* addNewEdge's test for an existing edge that the new one overwrites.
EdgeMatches(link, source, target, directed) ==
    \/ (link.source = source /\ link.target = target)
    \/ (~directed /\ link.source = target /\ link.target = source)

\* links.map(... matching edges get the new distance and directed flag ...)
Overwritten(ls, source, target, distance, directed) ==
    [i \in 1..Len(ls) |->
        IF EdgeMatches(ls[i], source, target, directed)
        THEN [ls[i] EXCEPT !.distance = distance, !.directed = directed]
        ELSE ls[i]]

\* What addNewEdge makes of an edge list.
WithEdge(ls, source, target, distance, directed) ==
    IF \E i \in 1..Len(ls) : EdgeMatches(ls[i], source, target, directed)
    THEN Overwritten(ls, source, target, distance, directed)
    ELSE Append(ls, [source |-> source, target |-> target,
                     distance |-> distance, directed |-> directed])

addNewEdge(source, target, distance, directed) ==
    /\ edits < MaxEdits
    /\ Len(WithEdge(links, source, target, distance, directed)) <= MaxEdges
    /\ edits' = edits + 1
    /\ Commit(cities,
              WithEdge(connections, source, target, distance, directed),
              WithEdge(links, source, target, distance, directed),
              startCity, endCity)
    /\ hoveredEdge' = NoEdge
    /\ UNCHANGED <<algorithm, reverseTraversal, resultVars, playerVars, highlightVars>>

\* Right click on a node: setIsConnectingNodes(true); setSourceNodeId(clickedNode.id).
setSourceNodeId(nodeId) ==
    /\ nodeId \in Range(cities)
    /\ sourceNodeId' = nodeId
    /\ hoveredEdge' = NoEdge
    /\ UNCHANGED <<cities, connections, links, selVars, resultVars, playerVars,
                   highlightVars, edits>>

\* The popup's cancel button, shown while an edge is being drawn.
cancelConnecting ==
    /\ sourceNodeId # NoCity
    /\ sourceNodeId' = NoCity
    /\ UNCHANGED <<cities, connections, links, hoveredEdge, selVars, resultVars, playerVars,
                   highlightVars, edits>>

\* The click that ends the edge gesture opens the dialog for (sourceNodeId, clicked
\* node): the clicked node is live and differs from sourceNodeId, which is the node
\* right-clicked before, in this step or in an earlier one.
EdgeGesture(source, target) ==
    /\ IF sourceNodeId = NoCity THEN source \in Range(cities) ELSE source = sourceNodeId
    /\ target \in Range(cities)
    /\ source # target

\* A confirm handler without the distance test.
confirmAddEdgeUnchecked(source, target, distance, directed) ==
    /\ EdgeGesture(source, target)
    /\ sourceNodeId' = NoCity
    /\ addNewEdge(source, target, distance, directed)

\* The edge dialog's confirm button, for the two nodes clicked in edge mode; the
\* pointer went over both nodes, so no edge is hovered.
confirmAddEdge(source, target, distance, directed) ==
    /\ EdgeGesture(source, target)
    /\ sourceNodeId' = NoCity
    /\ IF distance <= 0
       THEN /\ hoveredEdge' = NoEdge
            /\ UNCHANGED <<cities, connections, links, selVars, resultVars, playerVars,
                           highlightVars, edits>>
       ELSE addNewEdge(source, target, distance, directed)

-----------------------------------------------------------------------------
(* Initial data and the state after mount *)

\* Edge records between two different nodes of ns.
EdgeRecords(ns) ==
    {e \in [source : ns, target : ns, distance : Weights, directed : BOOLEAN] :
        e.source # e.target}

\* The edge lists of n edges that n appending addNewEdge calls build.
RECURSIVE EdgeLists(_, _)
EdgeLists(ns, n) ==
    IF n = 0 THEN {<<>>}
    ELSE {Append(l, e) : <<l, e>> \in
            {le \in EdgeLists(ns, n - 1) \X EdgeRecords(ns) :
                \A i \in 1..Len(le[1]) :
                    ~EdgeMatches(le[1][i], le[2].source, le[2].target, le[2].directed)}}

InitialEdgeLists(ns) == UNION {EdgeLists(ns, n) : n \in 0..MaxEdges}

\* State after the two mount effects ran on the initial data (cs, conns): nodes and
\* links are built and the selection is first / last city, unless either list is empty.
Mounted(cs, conns) ==
    /\ cities = cs
    /\ connections = conns
    /\ IF Len(cs) = 0 \/ Len(conns) = 0
       THEN links = <<>> /\ startCity = NoCity /\ endCity = NoCity
       ELSE links = conns /\ startCity = cs[1] /\ endCity = cs[Len(cs)]
    /\ hoveredEdge = NoEdge
    /\ sourceNodeId = NoCity
    /\ dfsPath = NoResult
    /\ pathNodes = {}
    /\ pathEdges = {}
    /\ animationSteps = <<>>
    /\ currentStepIndex = -1
    /\ isAnimating = FALSE
    /\ animationSpeed = 500
    /\ currentNode = NoCity
    /\ currentEdge = NoEdge
    /\ visitedNodes = {}
    /\ visitedEdges = {}
    /\ currentPathAnimation = <<>>
    /\ isBacktracking = FALSE
    /\ edgeToWaveMap = {}
    /\ edits = 0

-----------------------------------------------------------------------------
(* SearchSpec: one search on a drawn graph *)

\* Three cities, any initial edge list, and the algorithm and direction mode the
\* user selected before pressing "Find Path".
SearchInit ==
    /\ \E conns \in InitialEdgeLists(Nodes) : Mounted(<<"A", "B", "C">>, conns)
    /\ algorithm \in Algorithms
    /\ reverseTraversal \in BOOLEAN

SearchNext == FindPath

SearchSpec == SearchInit /\ [][SearchNext]_vars

-----------------------------------------------------------------------------
(* Spec: the application, with at most MaxEdits edits after mount; an edge is  *)
(* drawn in one step: right click, click and dialog follow each other         *)

\* The data sets the application is mounted on.
InitialData ==
    { <<<<"A", "B", "C">>,
        <<[source |-> "A", target |-> "B", distance |-> 1, directed |-> FALSE],
          [source |-> "B", target |-> "C", distance |-> 1, directed |-> FALSE],
          [source |-> "A", target |-> "C", distance |-> MaxWeight, directed |-> FALSE]>>>>,
      <<<<"A", "B", "C">>,
        <<[source |-> "C", target |-> "A", distance |-> 1, directed |-> TRUE],
          [source |-> "A", target |-> "C", distance |-> MaxWeight, directed |-> TRUE]>>>>,
      <<<<"A", "B">>, <<>>>> }

Speeds == {1000, 500, 200}

\* Distances typed into the edge dialog; 0 stands for the rejected inputs.
Distances == {0, 1}

Init ==
    /\ \E d \in InitialData : Mounted(d[1], d[2])
    /\ algorithm = "DFS"
    /\ reverseTraversal = FALSE

Next ==
    \/ FindPath
    \/ StartAnimation
    \/ StopAnimation
    \/ ResetAnimation
    \/ Tick
    \/ FinishAnimation
    \/ \E ms \in Speeds : SetAnimationSpeed(ms)
    \/ \E c \in Nodes : SetStartCity(c)
    \/ \E c \in Nodes : SetEndCity(c)
    \/ \E a \in Algorithms : SetAlgorithm(a)
    \/ \E b \in BOOLEAN : SetReverseTraversal(b)
    \/ \E nodeId \in Nodes : deleteNode(nodeId)
    \/ \E source, target \in Nodes : deleteEdge(source, target)
    \/ \E name \in Nodes : addNewNode(name)
    \/ \E source, target \in Nodes, distance \in Distances, directed \in BOOLEAN :
          confirmAddEdge(source, target, distance, directed)

Spec == Init /\ [][Next]_vars

-----------------------------------------------------------------------------
(* ExampleSpec: searches on the weighted triangle A-B 5, B-C 3, A-C 10 *)

ExampleLinks ==
    <<[source |-> "A", target |-> "B", distance |-> 5, directed |-> FALSE],
      [source |-> "B", target |-> "C", distance |-> 3, directed |-> FALSE],
      [source |-> "A", target |-> "C", distance |-> 10, directed |-> FALSE]>>

ExampleInit ==
    /\ Mounted(<<"A", "B", "C">>, ExampleLinks)
    /\ algorithm = "DFS"
    /\ reverseTraversal = FALSE

ExampleNext ==
    \/ FindPath
    \/ \E c \in Nodes : SetStartCity(c)
    \/ \E c \in Nodes : SetEndCity(c)
    \/ \E a \in Algorithms : SetAlgorithm(a)
    \/ \E b \in BOOLEAN : SetReverseTraversal(b)

ExampleSpec == ExampleInit /\ [][ExampleNext]_vars

-----------------------------------------------------------------------------
(* EditSpec: graph editing with the edge gesture taken apart into its clicks *)

EditNext ==
    \/ \E nodeId \in Nodes : setSourceNodeId(nodeId)
    \/ cancelConnecting
    \/ \E nodeId \in Nodes : deleteNode(nodeId)
    \/ \E source, target \in Nodes : deleteEdge(source, target)
    \/ \E name \in Nodes : addNewNode(name)
    \/ \E source, target \in Nodes, distance \in Distances, directed \in BOOLEAN :
          confirmAddEdge(source, target, distance, directed)

EditSpec == Init /\ [][EditNext]_vars

-----------------------------------------------------------------------------
(* PlaybackSpec: uninterrupted playback. Searches and settings happen only while *)
(* the player is idle; a started run is left to its timer, which always fires.   *)

PlaybackNext ==
    \/ ~isAnimating /\ FindPath
    \/ ~isAnimating /\ \E a \in Algorithms : SetAlgorithm(a)
    \/ ~isAnimating /\ \E b \in BOOLEAN : SetReverseTraversal(b)
    \/ StartAnimation
    \/ Tick
    \/ FinishAnimation

\* The effect's second branch is taken: a step from its condition to
\* setIsAnimating(false). FinishAnimation is the one action that takes it, and it is
\* enabled whenever the condition holds.
EndOfTrace ==
    /\ isAnimating
    /\ currentStepIndex >= Len(animationSteps)
    /\ isAnimating' = FALSE

\* setTimeout fires its callback, and React runs the effect after every render.
PlaybackSpec ==
    Init /\ [][PlaybackNext]_vars /\ WF_vars(Tick) /\ WF_isAnimating(EndOfTrace)

-----------------------------------------------------------------------------
(* Reference notions the properties are stated against, read off the edge list *)

\* Some live edge lets a traversal step from u to v under direction mode rev.
CanTraverse(ls, rev, u, v) ==
    \E i \in 1..Len(ls) :
        IF ls[i].directed
        THEN IF rev THEN ls[i].target = u /\ ls[i].source = v
                    ELSE ls[i].source = u /\ ls[i].target = v
        ELSE {ls[i].source, ls[i].target} = {u, v}

\* The weights of the live edges that let a traversal step from u to v.
HopWeights(ls, rev, u, v) ==
    {ls[i].distance : i \in {j \in 1..Len(ls) : CanTraverse(<<ls[j]>>, rev, u, v)}}

ValidPath(ls, rev, path) ==
    \A i \in 1..(Len(path) - 1) : CanTraverse(ls, rev, path[i], path[i + 1])

\* All cycle-free traversable paths that extend prefix to end.
RECURSIVE PathsFrom(_, _, _, _, _)
PathsFrom(cs, ls, rev, prefix, end) ==
    IF Last(prefix) = end THEN {prefix}
    ELSE UNION {PathsFrom(cs, ls, rev, Append(prefix, n), end) :
                  n \in {m \in Range(cs) \ Range(prefix) : CanTraverse(ls, rev, Last(prefix), m)}}

SimplePaths(cs, ls, rev, start, end) == PathsFrom(cs, ls, rev, <<start>>, end)

Min(S) == CHOOSE x \in S : \A y \in S : x <= y

\* Cheapest way to walk path, taking the lightest usable edge at each hop.
RECURSIVE PathCost(_, _, _)
PathCost(ls, rev, path) ==
    IF Len(path) <= 1 THEN 0
    ELSE Min(HopWeights(ls, rev, path[1], path[2])) + PathCost(ls, rev, Tail(path))

\* Every total obtained by taking one usable edge per consecutive pair of path.
RECURSIVE PathSums(_, _, _)
PathSums(ls, rev, path) ==
    IF Len(path) <= 1 THEN {0}
    ELSE {w + r : w \in HopWeights(ls, rev, path[1], path[2]),
                  r \in PathSums(ls, rev, Tail(path))}

Hops(path) == Len(path) - 1

\* The paths of the current graph between the current selection.
CurrentPaths == SimplePaths(cities, links, reverseTraversal, startCity, endCity)

LiveSelection ==
    startCity \in Range(cities) /\ endCity \in Range(cities) /\ startCity # endCity

\* What a search with engine alg stores in the current state.
SearchedWith(alg) ==
    SearchOutcome(alg, cities, links, reverseTraversal, startCity, endCity)

-----------------------------------------------------------------------------
(* Properties of the engines (SearchSpec) *)

\* C1: whenever a result is stored, whatever the strategy, the path starts at the
\* start selection, ends at the end selection, and every consecutive pair is joined
\* by a live edge traversable in that direction under the current direction mode.
C1_PathIsValid ==
    dfsPath.found =>
        /\ Len(dfsPath.path) >= 1
        /\ dfsPath.path[1] = startCity
        /\ Last(dfsPath.path) = endCity
        /\ ValidPath(links, reverseTraversal, dfsPath.path)

\* C2: a result stored by Dijkstra has the least total weight among all
\* start-to-end paths, and the stored path attains it.
C2_DijkstraShortest ==
    (algorithm = "Dijkstra" /\ dfsPath.found) =>
        /\ dfsPath.path \in CurrentPaths
        /\ dfsPath.totalDistance =
              Min({PathCost(links, reverseTraversal, p) : p \in CurrentPaths})
        /\ PathCost(links, reverseTraversal, dfsPath.path) = dfsPath.totalDistance

\* Dijkstra stored a two-hop path although a costlier direct path exists.
C2_Witness ==
    /\ algorithm = "Dijkstra"
    /\ dfsPath.found
    /\ Hops(dfsPath.path) = 2
    /\ \E p \in CurrentPaths :
          Hops(p) = 1 /\ PathCost(links, reverseTraversal, p) > dfsPath.totalDistance

\* C3: whenever another strategy stored a result and Dijkstra finds one on the same
\* graph and selection, Dijkstra's totalDistance is at most the stored totalDistance.
C3_DijkstraLeast ==
    (dfsPath.found /\ algorithm # "Dijkstra" /\ SearchedWith("Dijkstra").result.found) =>
        SearchedWith("Dijkstra").result.totalDistance <= dfsPath.totalDistance

\* C4: a result stored by BFS has the fewest edges among all start-to-end paths,
\* and no more edges than the DFS result for the same graph and selection.
C4_BFSFewestHops ==
    (algorithm = "BFS" /\ dfsPath.found) =>
        /\ dfsPath.path \in CurrentPaths
        /\ Hops(dfsPath.path) = Min({Hops(p) : p \in CurrentPaths})
        /\ SearchedWith("DFS").result.found
        /\ Hops(dfsPath.path) <= Hops(SearchedWith("DFS").result.path)

\* BFS stored a path with strictly fewer edges than the DFS path.
C4_Witness ==
    /\ algorithm = "BFS"
    /\ dfsPath.found
    /\ SearchedWith("DFS").result.found
    /\ Hops(dfsPath.path) < Hops(SearchedWith("DFS").result.path)

\* The weight of the adjacency entry a search takes from u to v: the first entry
\* for v among u's neighbours in the order the engines examine them.
TraversedWeight(u, v) ==
    LET neighbors == Neighbors(buildAdjacencyList(cities, links, reverseTraversal),
                               u, reverseTraversal)
        first == CHOOSE i \in 1..Len(neighbors) :
                    neighbors[i].city = v /\ \A j \in 1..(i - 1) : neighbors[j].city # v
    IN  neighbors[first].distance

\* The edges <<from, to>> discovered by the forward side of a Bidirectional Wave trace.
ForwardWaveEdges(steps) ==
    UNION {Range(steps[i].waveEdges) :
             i \in {j \in 1..Len(steps) : steps[j].hasWave /\ ~steps[j].isBackwardWave}}

\* Sum over the consecutive pairs of path of the weight of the edge the search
\* traversed: from u to v on the forward side, from v to u on the backward side.
RECURSIVE TraversedSum(_, _)
TraversedSum(path, steps) ==
    IF Len(path) <= 1 THEN 0
    ELSE (IF <<path[1], path[2]>> \in ForwardWaveEdges(steps)
          THEN TraversedWeight(path[1], path[2])
          ELSE TraversedWeight(path[2], path[1]))
         + TraversedSum(Tail(path), steps)

\* C5: a result stored by Bidirectional Wave reports as totalDistance the sum of the
\* weights of the live edges the search traversed along the stored path.
C5_BidirectionalDistance ==
    (algorithm = "BidirectionalWave" /\ dfsPath.found) =>
        dfsPath.totalDistance = TraversedSum(dfsPath.path, animationSteps)

\* C6: a result stored by DFS, BFS, Dijkstra or Wave reports as totalDistance a sum
\* of adjacency-entry weights, one entry per consecutive pair of the stored path.
C6_DistanceIsPathSum ==
    (dfsPath.found /\ algorithm \in {"DFS", "BFS", "Dijkstra", "Wave"}) =>
        dfsPath.totalDistance \in PathSums(links, reverseTraversal, dfsPath.path)

\* Each of the four engines stored a two-hop path over edges of different weight.
C6_Witness ==
    /\ dfsPath.found
    /\ algorithm = "DFS"
    /\ Hops(dfsPath.path) = 2
    /\ dfsPath.totalDistance = 1 + MaxWeight
    /\ \A alg \in {"BFS", "Dijkstra", "Wave"} :
          /\ SearchedWith(alg).result.found
          /\ Hops(SearchedWith(alg).result.path) = 2

\* C7: with start and end two different live nodes, a search stores a result exactly
\* when the end is reachable from the start in the adjacency index of the current
\* direction mode (a stored result implies a path, and a path implies the search
\* yields a result), and without a result the stored trace is empty.
C7_ResultIffReachable ==
    /\ dfsPath.found => CurrentPaths # {}
    /\ (LiveSelection /\ CurrentPaths # {}) => SearchedWith(algorithm).result.found
    /\ ~dfsPath.found => animationSteps = <<>>

\* C9: replaying the whole stored trace from the empty highlight state marks every
\* node of the stored path as visited.
C9_ReplayCoversPath ==
    dfsPath.found =>
        Range(dfsPath.path) \subseteq
            Replay(EmptyHighlight, animationSteps, Len(animationSteps)).visitedNodes

-----------------------------------------------------------------------------
(* Properties of the application (Spec) *)

\* The selection a search refuses: start equal to end, or either one unset.
DegenerateSelection ==
    startCity = endCity \/ startCity = NoCity \/ endCity = NoCity

\* A step that runs findPath: the button, or the end of playback.
SearchStep == FindPath \/ FinishAnimation

OnResultPath(s, t) ==
    /\ dfsPath.found
    /\ \E i \in 1..(Len(dfsPath.path) - 1) : {dfsPath.path[i], dfsPath.path[i + 1]} = {s, t}

\* C10: deleteEdge(s, t) clears the stored path and trace when the stored result
\* path has s and t as consecutive nodes, and leaves both unchanged when it has not.
C10_DeleteEdgeClearsItsPath ==
    [][\A s, t \in Nodes :
          deleteEdge(s, t) =>
             IF OnResultPath(s, t)
             THEN dfsPath' = NoResult /\ animationSteps' = <<>>
             ELSE UNCHANGED <<dfsPath, animationSteps>>]_vars

\* The stored result path and trace are gone after the step.
ResultCleared == dfsPath' = NoResult /\ animationSteps' = <<>>

\* C11: deleteNode(id) clears the stored path and trace whenever id is a node of the
\* stored result path, interior nodes included.
C11_DeleteNodeClearsItsPath ==
    [][\A id \in Nodes :
          (dfsPath.found /\ id \in Range(dfsPath.path) /\ deleteNode(id)) => ResultCleared]_vars

\* A valid edge addition that overwrites, with a different weight or directed flag,
\* an edge joining two consecutive nodes of the stored result path.
OverwritesPathEdge(source, target, distance, directed) ==
    /\ distance > 0
    /\ OnResultPath(source, target)
    /\ \E i \in 1..Len(links) :
          /\ EdgeMatches(links[i], source, target, directed)
          /\ (links[i].distance # distance \/ links[i].directed # directed)

\* C12: an edge addition that overwrites the weight or the directed flag of an edge
\* on the stored result path clears the stored path and trace.
C12_OverwriteClearsItsPath ==
    [][\A source, target \in Nodes, distance \in Distances, directed \in BOOLEAN :
          (/\ OverwritesPathEdge(source, target, distance, directed)
           /\ confirmAddEdge(source, target, distance, directed)) => ResultCleared]_vars

\* new consists of exactly the entries of old at the indices in kept, in their order.
KeepsInOrder(old, new, kept) ==
    /\ Len(new) = Cardinality(kept)
    /\ \A i \in kept : new[Cardinality({k \in kept : k <= i})] = old[i]

\* C13: after deleteNode(id) no node has that id and no edge touches it, and every
\* other node and edge is still there, unchanged and in its relative order.
C13_DeleteNodeFrame ==
    [][\A id \in Nodes :
          deleteNode(id) =>
             /\ KeepsInOrder(cities, cities', {i \in 1..Len(cities) : cities[i] # id})
             /\ KeepsInOrder(links, links',
                             {i \in 1..Len(links) : links[i].source # id /\ links[i].target # id})
             /\ connections' = links']_vars

\* B was deleted from the triangle A, B, C: only the edge A-C is left.
C13_Witness ==
    /\ cities = <<"A", "C">>
    /\ links = <<[source |-> "A", target |-> "C", distance |-> MaxWeight, directed |-> FALSE]>>

\* The first node in the node order after the step, or none.
FirstRemaining == IF Len(cities') = 0 THEN NoCity ELSE cities'[1]

\* C14: deleteNode(id) of the start or end selection clears the stored path and
\* trace, moves the removed selection to the first remaining node (none when no
\* node remains) and leaves the other selection alone.
C14_DeleteSelectedNode ==
    [][\A id \in Nodes :
          ((startCity = id \/ endCity = id) /\ deleteNode(id)) =>
             /\ ResultCleared
             /\ startCity' = IF startCity = id THEN FirstRemaining ELSE startCity
             /\ endCity' = IF endCity = id THEN FirstRemaining ELSE endCity]_vars

\* The indices of the edges an addition of (source, target, directed) overwrites.
MatchingEdges(source, target, directed) ==
    {i \in 1..Len(links) : EdgeMatches(links[i], source, target, directed)}

\* C15: a valid edge addition changes exactly one entry of the edge list: it
\* overwrites the one matching edge in place with the new weight and directed flag,
\* or, when no edge matches, appends one new edge at the end.
C15_AddEdgeChangesOneEntry ==
    [][\A source, target \in Nodes, distance \in Distances, directed \in BOOLEAN :
          (distance > 0 /\ confirmAddEdge(source, target, distance, directed)) =>
             LET matching == MatchingEdges(source, target, directed) IN
             IF matching = {}
             THEN links' = Append(links, [source |-> source, target |-> target,
                                          distance |-> distance, directed |-> directed])
             ELSE /\ Cardinality(matching) = 1
                  /\ Len(links') = Len(links)
                  /\ \A i \in 1..Len(links) :
                        links'[i] = IF i \in matching
                                    THEN [links[i] EXCEPT !.distance = distance,
                                                          !.directed = directed]
                                    ELSE links[i]]_vars

\* C16: an edge addition with a weight that is not positive is rejected and leaves
\* node list, edge list, stored path and trace unchanged; every stored edge has a
\* weight > 0.
C16_RejectsNonPositiveWeight ==
    /\ [](\A i \in 1..Len(links) : links[i].distance > 0)
    /\ [](\A i \in 1..Len(connections) : connections[i].distance > 0)
    /\ [][\/ UNCHANGED <<cities, links, connections, dfsPath, animationSteps>>
          \/ ~ \E source, target \in Nodes, distance \in Distances, directed \in BOOLEAN :
                  distance <= 0 /\ confirmAddEdge(source, target, distance, directed)]_vars

\* An edge was added to the data set that starts without edges, and a path over it
\* is stored.
C16_Witness ==
    /\ cities = <<"A", "B">>
    /\ Len(links) = 1
    /\ links[1].distance > 0
    /\ dfsPath.found

\* C17: deleteNode with an id that is not a live node, and deleteEdge with endpoints
\* that match no live edge, change neither node list, edge list, start and end
\* selection, stored path nor stored trace.
C17_DeletingNothingIsNoOp ==
    [][/\ \A id \in Nodes :
             (id \notin Range(cities) /\ deleteNode(id)) =>
                UNCHANGED <<cities, links, connections, startCity, endCity,
                            dfsPath, animationSteps>>
       /\ \A source, target \in Nodes :
             (DeletesNothing(source, target) /\ deleteEdge(source, target)) =>
                UNCHANGED <<cities, links, connections, startCity, endCity,
                            dfsPath, animationSteps>>]_vars

\* The highlight state after the step.
HighlightNext ==
    [currentNode |-> currentNode', currentEdge |-> currentEdge',
     visitedNodes |-> visitedNodes', visitedEdges |-> visitedEdges',
     currentPathAnimation |-> currentPathAnimation', isBacktracking |-> isBacktracking',
     edgeToWaveMap |-> edgeToWaveMap', pathEdges |-> pathEdges']

\* C18: within one playback run the cursor starts at 0 and every tick applies
\* exactly the step under the cursor and moves the cursor on by one; between ticks,
\* also when the speed is changed, trace, cursor and highlight stay as they are, so
\* the steps are applied in index order, none skipped, repeated or reordered.
C18_StepsInOrder ==
    /\ [](isAnimating => (currentStepIndex >= 0 /\ currentStepIndex <= Len(animationSteps)))
    /\ [][StartAnimation => currentStepIndex' = 0]_vars
    /\ [][(isAnimating /\ isAnimating') =>
            /\ animationSteps' = animationSteps
            /\ \/ /\ currentStepIndex' = currentStepIndex
                  /\ HighlightNext = Highlight
               \/ /\ currentStepIndex' = currentStepIndex + 1
                  /\ currentStepIndex < Len(animationSteps)
                  /\ HighlightNext = ApplyStep(Highlight, animationSteps[currentStepIndex + 1])]_vars

\* A run in which the speed was changed has applied two steps.
C18_Witness ==
    /\ isAnimating
    /\ currentStepIndex >= 2
    /\ animationSpeed # 500
    /\ visitedNodes # {}

\* The highlight state after the step is the one resetAnimationState leaves.
HighlightEmptied ==
    /\ currentNode' = NoCity
    /\ currentEdge' = NoEdge
    /\ visitedNodes' = {}
    /\ visitedEdges' = {}
    /\ currentPathAnimation' = <<>>
    /\ isBacktracking' = FALSE
    /\ edgeToWaveMap' = {}

\* C19: stopping playback sets the player to not animating and leaves highlight
\* state, step cursor and stored trace unchanged; while the player is not animating
\* no step is applied: the highlight state stays as it is or is emptied by a reset,
\* and playback resumes only through the start button.
C19_StopKeepsHighlight ==
    /\ [][StopAnimation =>
            /\ ~isAnimating'
            /\ UNCHANGED <<highlightVars, pathEdges, currentStepIndex, animationSteps>>]_vars
    /\ [][~isAnimating =>
            /\ UNCHANGED highlightVars \/ HighlightEmptied
            /\ isAnimating' => (StartAnimation /\ UNCHANGED highlightVars)]_vars

\* Playback was stopped in the middle of the trace with steps applied.
C19_Witness ==
    /\ ~isAnimating
    /\ currentStepIndex > 0
    /\ currentStepIndex < Len(animationSteps)
    /\ visitedNodes # {}

\* The step is a structural mutation: a node or an edge is added or deleted.
StructuralMutation ==
    \/ \E nodeId \in Nodes : deleteNode(nodeId)
    \/ \E source, target \in Nodes : deleteEdge(source, target)
    \/ \E name \in Nodes : addNewNode(name)
    \/ \E source, target \in Nodes, distance \in Distances, directed \in BOOLEAN :
          distance > 0 /\ confirmAddEdge(source, target, distance, directed)

\* C20: a structural mutation performed while playback is in progress stops the
\* player: after it the player is not animating.
C20_MutationStopsPlayback ==
    [][(isAnimating /\ StructuralMutation) => ~isAnimating']_vars

-----------------------------------------------------------------------------
(* Adjacency index *)

\* The entries one edge contributes, as <<node, neighbour, weight>>, by the
\* construction rule: source -> target when not reversed, target -> source when
\* reversed, and the opposite entry as well iff the edge is undirected.
EdgeEntries(link, rev) ==
    LET ab == <<link.source, link.target, link.distance>>
        ba == <<link.target, link.source, link.distance>>
    IN  IF link.directed THEN (IF rev THEN <<ba>> ELSE <<ab>>) ELSE <<ab, ba>>

RECURSIVE AllEntries(_, _)
AllEntries(ls, rev) ==
    IF Len(ls) = 0 THEN <<>>
    ELSE AllEntries(Front(ls), rev) \o EdgeEntries(Last(ls), rev)

\* The entries of one node, in edge insertion order.
EntriesOf(ls, rev, node) ==
    LET IsOf(e) == e[1] = node
        mine == SelectSeq(AllEntries(ls, rev), IsOf)
    IN  [i \in 1..Len(mine) |-> [city |-> mine[i][2], distance |-> mine[i][3]]]

\* C21: the adjacency index built from the node list and the edge list holds, for
\* every node, exactly the entries the edges contribute under the direction mode,
\* in edge insertion order, and nothing else.
C21_AdjacencyByRule ==
    LET adj == buildAdjacencyList(cities, links, reverseTraversal) IN
        /\ DOMAIN adj = Range(cities)
        /\ \A c \in Range(cities) : adj[c] = EntriesOf(links, reverseTraversal, c)

\* A reversed search ran on a graph with a directed and an undirected edge.
C21_Witness ==
    /\ reverseTraversal
    /\ \E i, j \in 1..Len(links) : links[i].directed /\ ~links[j].directed
    /\ dfsPath.found

-----------------------------------------------------------------------------
(* Live endpoints *)

\* C22: after any sequence of node and edge additions and deletions the adjacency
\* builder has an entry for every live node, and the source and target of every
\* edge are live nodes, so no node id without an adjacency entry is ever indexed.
C22_EndpointsAreLive ==
    /\ DOMAIN buildAdjacencyList(cities, links, reverseTraversal) = Range(cities)
    /\ \A i \in 1..Len(links) :
          links[i].source \in Range(cities) /\ links[i].target \in Range(cities)
    /\ \A i \in 1..Len(connections) :
          connections[i].source \in Range(cities) /\ connections[i].target \in Range(cities)

-----------------------------------------------------------------------------
(* Bidirectional Wave: the stored path *)

\* The meeting node, shown by the step before the final path step.
StoredMeetingNode == animationSteps[Len(animationSteps) - 1].currentNode

\* The discovery edges <<from, to>> of the wave steps of one side; each is one
\* predecessor entry of that side, previous[to] = from.
DiscoveryEdges(backward) ==
    UNION {Range(animationSteps[i].waveEdges) :
              i \in {j \in 1..Len(animationSteps) :
                        animationSteps[j].hasWave /\ animationSteps[j].isBackwardWave = backward}}

\* C24: a result stored by Bidirectional Wave starts at start, ends at end, has no
\* node twice, and passes the meeting node exactly once: up to it every hop is a
\* forward predecessor entry, after it every hop is a backward predecessor entry.
C24_PathThroughMeetingNode ==
    (algorithm = "BidirectionalWave" /\ dfsPath.found) =>
        LET path == dfsPath.path IN
        /\ path[1] = startCity
        /\ path[Len(path)] = endCity
        /\ \A i, j \in 1..Len(path) : path[i] = path[j] => i = j
        /\ Cardinality({i \in 1..Len(path) : path[i] = StoredMeetingNode}) = 1
        /\ \A k \in 1..Len(path) :
              path[k] = StoredMeetingNode =>
                 /\ \A i \in 1..(k - 1) : <<path[i], path[i + 1]>> \in DiscoveryEdges(FALSE)
                 /\ \A i \in k..(Len(path) - 1) : <<path[i + 1], path[i]>> \in DiscoveryEdges(TRUE)

\* The two sides met in the middle of a three-node path.
C24_Witness ==
    /\ algorithm = "BidirectionalWave"
    /\ dfsPath.found
    /\ Len(dfsPath.path) = 3
    /\ StoredMeetingNode = dfsPath.path[2]

-----------------------------------------------------------------------------
(* Direction mode on undirected graphs *)

\* The nodes of S and their neighbours in the adjacency index.
WithNeighbours(adj, S) ==
    S \cup UNION {{adj[n][i].city : i \in 1..Len(adj[n])} : n \in S}

\* The nodes reachable from the nodes of S in the adjacency index.
RECURSIVE ReachableFrom(_, _)
ReachableFrom(adj, S) ==
    IF WithNeighbours(adj, S) = S THEN S ELSE ReachableFrom(adj, WithNeighbours(adj, S))

AllUndirected == \A i \in 1..Len(links) : ~links[i].directed

\* C23: on a graph with undirected edges only, the nodes reachable from a start node
\* in the adjacency index are the same in both direction modes, and every strategy
\* yields a result in one mode exactly when it yields one in the other.
C23_UndirectedSameReach ==
    AllUndirected =>
        /\ \A n \in Range(cities) :
              ReachableFrom(buildAdjacencyList(cities, links, TRUE), {n})
                 = ReachableFrom(buildAdjacencyList(cities, links, FALSE), {n})
        /\ \A alg \in Algorithms :
              SearchOutcome(alg, cities, links, TRUE, startCity, endCity).result.found
                 = SearchOutcome(alg, cities, links, FALSE, startCity, endCity).result.found

\* A reversed search on an undirected graph stored a result that differs from the
\* one of the other direction mode.
C23_Witness ==
    /\ AllUndirected
    /\ reverseTraversal
    /\ dfsPath.found
    /\ dfsPath # SearchOutcome(algorithm, cities, links, FALSE, startCity, endCity).result

-----------------------------------------------------------------------------
(* The weighted triangle *)

\* C25: on the triangle A-B 5, B-C 3, A-C 10 (undirected, in this insertion order),
\* direction mode off, start A, end C, a search stores path A,B,C with distance 8
\* under DFS, path A,C with distance 10 under BFS, and path A,B,C with distance 8
\* under Dijkstra.
C25_TriangleResults ==
    [][(/\ links = ExampleLinks
        /\ ~reverseTraversal
        /\ startCity = "A"
        /\ endCity = "C"
        /\ FindPath) =>
          /\ algorithm = "DFS" => dfsPath' = PathResult(<<"A", "B", "C">>, 8)
          /\ algorithm = "BFS" => dfsPath' = PathResult(<<"A", "C">>, 10)
          /\ algorithm = "Dijkstra" => dfsPath' = PathResult(<<"A", "B", "C">>, 8)]_vars

\* Dijkstra's result on the triangle is stored.
C25_Witness ==
    /\ links = ExampleLinks
    /\ algorithm = "Dijkstra"
    /\ ~reverseTraversal
    /\ startCity = "A"
    /\ endCity = "C"
    /\ dfsPath = PathResult(<<"A", "B", "C">>, 8)

-----------------------------------------------------------------------------
(* Wave: the last wave *)

\* C26: the Wave engine stops once the target is dequeued, without expanding the
\* wave the target belongs to: no wave step of a stored trace has the target
\* among its expanded nodes.
C26_WaveStopsAtTarget ==
    (algorithm = "Wave" /\ dfsPath.found) =>
        \A i \in 1..Len(animationSteps) :
            animationSteps[i].hasWave => endCity \notin Range(animationSteps[i].waveNodes)

-----------------------------------------------------------------------------
(* DFS: the trace *)

\* Step kinds of a DFS trace.
IsVisit(step) == step.visitedEdge = NoEdge /\ ~step.isBacktrack
IsProbe(step) == step.visitedEdge # NoEdge
IsBacktrack(step) == step.isBacktrack

BacktrackedNodes ==
    {animationSteps[i].currentNode :
        i \in {j \in 1..Len(animationSteps) : IsBacktrack(animationSteps[j])}}

\* The nodes with a Visit step and no Backtrack step, in Visit order.
OpenVisits ==
    LET Open(step) == IsVisit(step) /\ step.currentNode \notin BacktrackedNodes
        open == SelectSeq(animationSteps, Open)
    IN  [i \in 1..Len(open) |-> open[i].currentNode]

\* C27: in a stored DFS trace the result path is the nodes visited and not
\* backtracked, in Visit order, followed by the end node; every backtracked node
\* was visited before and is not on the result path.
C27_PathIsOpenVisits ==
    (algorithm = "DFS" /\ dfsPath.found) =>
        /\ dfsPath.path = OpenVisits \o <<endCity>>
        /\ \A i \in 1..Len(animationSteps) :
              IsBacktrack(animationSteps[i]) =>
                 /\ \E j \in 1..(i - 1) :
                       /\ IsVisit(animationSteps[j])
                       /\ animationSteps[j].currentNode = animationSteps[i].currentNode
                 /\ animationSteps[i].currentNode \notin Range(dfsPath.path)

\* A stored DFS trace with a backtracked node.
C27_Witness ==
    /\ algorithm = "DFS"
    /\ dfsPath.found
    /\ BacktrackedNodes # {}

-----------------------------------------------------------------------------
(* Bidirectional Wave: the trace *)

\* The wave-expansion steps of the stored trace, in order.
ExpansionSteps ==
    LET Expands(step) == step.hasWave /\ Len(step.waveEdges) > 0
    IN  SelectSeq(animationSteps, Expands)

\* C28: in a stored Bidirectional Wave trace the expansion steps alternate between
\* forward (is_backward = false) and backward (is_backward = true), beginning with
\* a forward step; forward steps expand from the start side and backward steps
\* from the end side.
C28_WavesAlternate ==
    (algorithm = "BidirectionalWave" /\ dfsPath.found) =>
        /\ \A k \in 1..Len(ExpansionSteps) :
              ExpansionSteps[k].isBackwardWave = (k % 2 = 0)
        /\ \A k \in 1..Len(ExpansionSteps) :
              (\A j \in 1..(k - 1) :
                  ExpansionSteps[j].isBackwardWave # ExpansionSteps[k].isBackwardWave) =>
                 ExpansionSteps[k].waveNodes =
                    <<IF ExpansionSteps[k].isBackwardWave THEN endCity ELSE startCity>>

-----------------------------------------------------------------------------
(* Neighbour order in the direction mode *)

\* The edges <<node, neighbour>> a step shows as examined: the probed edge of a
\* plain step, the discovery edges of a wave step.
ExaminedBy(step) ==
    IF step.hasWave THEN step.waveEdges
    ELSE IF IsProbe(step) THEN <<step.visitedEdge>> ELSE <<>>

\* The examined edges of the first n steps of a trace, in trace order.
RECURSIVE ExaminedIn(_, _)
ExaminedIn(steps, n) ==
    IF n = 0 THEN <<>> ELSE ExaminedIn(steps, n - 1) \o ExaminedBy(steps[n])

\* The examined edges of the first n steps of the stored trace.
Examined(n) == ExaminedIn(animationSteps, n)

\* Neighbour early is examined before neighbour late of the same node although no
\* entry of early follows an entry of late in the node's adjacency list.
AgainstReversedOrder(entries, early, late) ==
    ~ \E p, q \in 1..Len(entries) :
          p > q /\ entries[p].city = early /\ entries[q].city = late

\* C29: with reverseTraversal on, every engine examines the neighbours of a node in
\* the reverse of the order of the node's adjacency entries, and the probes of the
\* stored trace appear in that reversed order.
C29_ReversedNeighbourOrder ==
    (reverseTraversal /\ dfsPath.found) =>
        LET adj == buildAdjacencyList(cities, links, TRUE)
            seen == Examined(Len(animationSteps))
        IN  \A i, j \in 1..Len(seen) :
               (i < j /\ seen[i][1] = seen[j][1] /\ seen[i][2] # seen[j][2]) =>
                  ~AgainstReversedOrder(adj[seen[i][1]], seen[i][2], seen[j][2])

-----------------------------------------------------------------------------
(* Termination and single expansion *)

\* The number of adjacency entries of the current graph.
RECURSIVE AdjacencyEntries(_)
AdjacencyEntries(n) ==
    IF n = 0 THEN 0 ELSE AdjacencyEntries(n - 1) + (IF links[n].directed THEN 1 ELSE 2)

\* A trace that enters, leaves and probes no more than once per node and entry and
\* direction is no longer than this.
TraceBound == 2 * (Len(cities) + AdjacencyEntries(Len(links))) + 2

\* Plain steps that show node as entered.
VisitsOf(node) ==
    {i \in 1..Len(animationSteps) :
        /\ ~animationSteps[i].hasWave
        /\ IsVisit(animationSteps[i])
        /\ animationSteps[i].currentNode = node}

\* Places of node among the expanded nodes of the wave steps of one side.
ExpansionsOf(node, backward) ==
    {<<i, p>> \in (1..Len(animationSteps)) \X (1..MaxCities) :
        /\ animationSteps[i].hasWave
        /\ Len(animationSteps[i].waveEdges) > 0
        /\ animationSteps[i].isBackwardWave = backward
        /\ p <= Len(animationSteps[i].waveNodes)
        /\ animationSteps[i].waveNodes[p] = node}

\* The probes of each node form one block of the examined edges.
ProbesInOneBlock ==
    LET seen == Examined(Len(animationSteps)) IN
        \A i, j, k \in 1..Len(seen) :
            (i < j /\ j < k /\ seen[i][1] = seen[k][1]) => seen[j][1] = seen[i][1]

-----------------------------------------------------------------------------
(* Properties of uninterrupted playback (PlaybackSpec) *)

\* The highlight state a search leaves behind: empty, with the result's path edges.
AfterSearchHighlight == [EmptyHighlight EXCEPT !.pathEdges = PathEdgeKeys(dfsPath.path)]

\* C31: a started playback that is left alone stops animating eventually; up to
\* then the highlight is the first cursor-many steps of the trace applied once each
\* in order, and it stops only with the cursor at the length of the trace.
C31_PlaybackCompletes ==
    /\ isAnimating ~> ~isAnimating
    /\ [](isAnimating =>
            /\ currentStepIndex \in 0..Len(animationSteps)
            /\ Highlight = Replay(AfterSearchHighlight, animationSteps, currentStepIndex))
    /\ [][(isAnimating /\ ~isAnimating') => currentStepIndex = Len(animationSteps)]_vars

\* A run has applied all of at least three steps and is about to stop.
C31_Witness ==
    /\ isAnimating
    /\ Len(animationSteps) >= 3
    /\ currentStepIndex = Len(animationSteps)

-----------------------------------------------------------------------------
(* Further properties of the engines (SearchSpec) *)

\* C32: on every graph and direction mode, Wave and BFS agree: one yields a result
\* exactly when the other does, with the same path node for node and the same
\* totalDistance, and what a Wave search stored is that result.
C32_WaveAgreesWithBFS ==
    algorithm = "Wave" =>
        /\ SearchedWith("Wave").result = SearchedWith("BFS").result
        /\ dfsPath.found => dfsPath = SearchedWith("BFS").result

\* Wave stored a two-hop path over a light and a heavy edge, as BFS does.
C32_Witness ==
    /\ algorithm = "Wave"
    /\ dfsPath.found
    /\ Hops(dfsPath.path) = 2
    /\ dfsPath.totalDistance = 1 + MaxWeight
    /\ SearchedWith("BFS").result.path = dfsPath.path

\* What is observed of a Bidirectional Wave search at one point of its loop: the
\* two visited sets, the meeting node, and whether the turn just taken set the
\* meeting node while dequeuing.
BiSnapshot(visitedForward, visitedBackward, meetingNode, atDequeue) ==
    [visitedForward |-> visitedForward, visitedBackward |-> visitedBackward,
     meetingNode |-> meetingNode, atDequeue |-> atDequeue]

\* The dequeue loop of a side's turn hits a node the other side has visited.
MeetsAtDequeue(queue, otherVisited) ==
    biTakeWave(queue, <<>>, otherVisited).meetingNode # NoCity

\* The snapshots of a search from the loop state st on: at every test of the loop
\* condition, after every forward turn f and after every backward turn b.
RECURSIVE BiSnapshots(_, _, _)
RECURSIVE BiSnapshotsAfterForward(_, _, _, _)
BiSnapshotsAfterBackward(st, f, b, adj, rev) ==
    {BiSnapshot(f.side.visited, b.side.visited, b.meetingNode,
                MeetsAtDequeue(st.backward.queue, f.side.visited))}
        \cup BiSnapshots(biMerge(st, f, b), adj, rev)

BiSnapshotsAfterForward(st, f, adj, rev) ==
    {BiSnapshot(f.side.visited, st.backward.visited, f.meetingNode,
                MeetsAtDequeue(st.forward.queue, st.backward.visited))}
        \cup IF f.meetingNode # NoCity THEN {}
             ELSE BiSnapshotsAfterBackward(st, f, biBackward(st, f, adj, rev), adj, rev)

BiSnapshots(st, adj, rev) ==
    {BiSnapshot(st.forward.visited, st.backward.visited, st.meetingNode, FALSE)}
        \cup IF (Len(st.forward.queue) = 0 /\ Len(st.backward.queue) = 0) \/ st.meetingNode # NoCity
             THEN {}
             ELSE BiSnapshotsAfterForward(st, biForward(st, adj, rev), adj, rev)

\* The snapshots of the Bidirectional Wave search of the current graph and selection.
CurrentBiSnapshots ==
    BiSnapshots(BiStart(cities, startCity, endCity),
                buildAdjacencyList(cities, links, reverseTraversal), reverseTraversal)

\* C33: throughout a Bidirectional Wave search the two visited sets share at most
\* one node, they share one exactly when the meeting node is set, that node is the
\* meeting node, and no turn sets the meeting node while dequeuing.
C33_SidesMeetAtDiscovery ==
    (algorithm = "BidirectionalWave" /\ LiveSelection) =>
        \A s \in CurrentBiSnapshots :
            /\ Cardinality(s.visitedForward \cap s.visitedBackward) <= 1
            /\ (s.visitedForward \cap s.visitedBackward # {}) <=> (s.meetingNode # NoCity)
            /\ s.meetingNode # NoCity => s.visitedForward \cap s.visitedBackward = {s.meetingNode}
            /\ ~s.atDequeue

\* A stored Bidirectional Wave result whose search took a turn on each side
\* before the sides met at the middle node.
C33_Witness ==
    /\ algorithm = "BidirectionalWave"
    /\ dfsPath.found
    /\ Len(dfsPath.path) = 3
    /\ \E s \in CurrentBiSnapshots :
          s.meetingNode = dfsPath.path[2] /\ s.visitedBackward = {endCity, s.meetingNode}
    /\ Cardinality(CurrentBiSnapshots) >= 3

-----------------------------------------------------------------------------
(* Further properties of the application (Spec) *)

\* C34: in every reachable state the stored result is absent exactly when the
\* stored trace is empty.
C34_ResultIffTrace ==
    ~dfsPath.found <=> animationSteps = <<>>

\* A result and its trace are stored and being played after MaxEdits edits.
C34_Witness ==
    /\ dfsPath.found
    /\ Len(animationSteps) > 0
    /\ isAnimating
    /\ edits = MaxEdits

\* C35: after any sequence of edits and selection changes the start selection and
\* the end selection are each the empty id or the id of a live node.
C35_SelectionIsLive ==
    /\ startCity = NoCity \/ startCity \in Range(cities)
    /\ endCity = NoCity \/ endCity \in Range(cities)

\* The selected start node A was deleted and no edge is left: the start selection
\* moved to B.
C35_Witness ==
    /\ "A" \notin Range(cities)
    /\ Len(links) = 0
    /\ startCity = "B"
    /\ endCity = "C"

\* The step is a deletion whose handler itself clears the stored result: of a
\* selected node, or of an edge whose key is among the stored path edges.
HandlerClears ==
    \/ \E nodeId \in {startCity, endCity} : deleteNode(nodeId)
    \/ \E source, target \in Nodes :
          OnStoredPathEdges(source, target) /\ deleteEdge(source, target)

C37_CursorInTrace ==
    /\ currentStepIndex >= -1
    /\ currentStepIndex <= Len(animationSteps)
    /\ isAnimating => (Len(animationSteps) > 0 /\ currentStepIndex >= 0)
    /\ StepDue => (currentStepIndex + 1) \in DOMAIN animationSteps

\* Playback was stopped in the middle of the trace: the cursor stays where it was.
C37_Witness ==
    /\ ~isAnimating
    /\ currentStepIndex >= 1
    /\ currentStepIndex < Len(animationSteps)

\* After the step the store holds exactly what a search yields: the player is
\* stopped, the cursor is -1, the highlight is empty, and path, path highlight and
\* trace are those of out (none and empty when out has no result).
HoldsOutcome(out) ==
    /\ ~isAnimating'
    /\ currentStepIndex' = -1
    /\ dfsPath' = out.result
    /\ animationSteps' = out.steps
    /\ pathNodes' = Range(out.result.path)
    /\ HighlightNext = [EmptyHighlight EXCEPT !.pathEdges = PathEdgeKeys(out.result.path)]

\* C38: the step taken when playback has run past the last step stops the player
\* and stores the outcome of a search with the strategy, selection, direction mode
\* and graph of that moment, with the highlight emptied and the cursor at -1.
C38_EndOfTraceSearchesAgain ==
    [][FinishAnimation =>
          /\ UNCHANGED <<graphVars, selVars>>
          /\ \E out \in {SearchedWith(algorithm)} : HoldsOutcome(out)]_vars

\* A run is at the end of its trace and the settings were changed while it played:
\* the search about to be re-run yields another trace than the one played.
C38_Witness ==
    /\ isAnimating
    /\ currentStepIndex = Len(animationSteps)
    /\ SearchedWith(algorithm).steps # animationSteps
    /\ SearchedWith(algorithm).result.found

-----------------------------------------------------------------------------
(* Direction mode (SearchSpec) *)

\* C39: with the direction mode on, a result stored by DFS, BFS, Dijkstra or Wave,
\* read from its last node to its first, goes from the end selection to the start
\* selection and is a valid path of the graph with the direction mode off.
C39_ReversedPathIsForwardPath ==
    (reverseTraversal /\ dfsPath.found /\ algorithm \in {"DFS", "BFS", "Dijkstra", "Wave"}) =>
        /\ Reverse(dfsPath.path)[1] = endCity
        /\ Last(Reverse(dfsPath.path)) = startCity
        /\ ValidPath(links, FALSE, Reverse(dfsPath.path))

\* With the direction mode on a two-hop path is stored whose first hop cannot be
\* taken with the mode off, while the reverse of that hop can.
C39_Witness ==
    /\ reverseTraversal
    /\ algorithm \in {"DFS", "BFS", "Dijkstra", "Wave"}
    /\ dfsPath.found
    /\ Hops(dfsPath.path) = 2
    /\ ~CanTraverse(links, FALSE, dfsPath.path[1], dfsPath.path[2])
    /\ CanTraverse(links, FALSE, dfsPath.path[2], dfsPath.path[1])


=============================================================================
